---- MODULE Spec2Model ----
(***************************************************************************)
(* anim_to_vtk: conversion of one Radioss "Anim" frame file to a legacy    *)
(* VTK unstructured grid (src/output_converters/anim_to_vtk/src/main.rs).  *)
(*                                                                         *)
(* The input file is the record `frame` (what the decoder finds in the     *)
(* stream, section by section) together with `inLen`, the number of bytes  *)
(* the stream really holds.  read_radioss_anim is one forward pass: pc     *)
(* walks through its read sections and then through its write sections.    *)
(* Sequences are 1-based here: the code's v[i] is v[i + 1].                *)
(***************************************************************************)
EXTENDS Integers, Sequences, FiniteSets, TLC

VARIABLES
    pc,             \* position inside read_radioss_anim
    frame,          \* content of the input file
    inLen,          \* length in bytes of the input file
    inPos,          \* bytes consumed from the input file
    binary_format,  \* the --binary option
    dec,            \* local variables of read_radioss_anim filled by the decode
    out,            \* sections written to the BufWriter so far
    cur,            \* the four part cursors of the PART_ID loops
    retained,       \* content of the output file once read_radioss_anim is left
    abortAt,        \* pc at which the conversion aborted, "none" otherwise
    input,          \* the input file: its name and whether File::open succeeds
    stderr,         \* lines printed on the standard error stream
    saved,          \* output file of the conversion made before this one
    parsed,         \* what compare_vtk read from the two output files
    rt,             \* a call of read_text on a stream of bytes, taken alone
    batch,          \* the loop of main over the input files of the command line
    report          \* what compare_vtk printed and how it ended

\* What read_radioss_anim never touches: it belongs to its callers.
caller == <<input, saved, parsed, rt, batch, report>>

vars ==
    <<pc, frame, inLen, inPos, binary_format, dec, out, cur, retained, abortAt,
      input, stderr, saved, parsed, rt, batch, report>>

-----------------------------------------------------------------------------
(* Program constants *)

FASTMAGI10 == 21548

I32_MAX == 2147483647

-----------------------------------------------------------------------------
(* Bounds of the model *)

MaxNodes == 1
Max2D == 2
Max3D == 2
Max1D == 1
MaxSph == 1
MaxPartElts == 4
MaxParts == 3
MaxNames == 1
MaxFields == 2
MaxFieldElts == 2
MaxTextLen == 4
MaxFiles == 2

-----------------------------------------------------------------------------
(* Generic helpers *)

RECURSIVE Flatten(_)
Flatten(ss) == IF ss = <<>> THEN <<>> ELSE Head(ss) \o Flatten(Tail(ss))

Range(s) == {s[i] : i \in 1..Len(s)}

Zeros(n) == [i \in 1..n |-> 0]

SetMin(S) == CHOOSE x \in S : \A y \in S : x <= y

-----------------------------------------------------------------------------
(* Contents the input file may have.  A text is a sequence of one-character *)
(* strings; a float is stood for by an integer token.                       *)

\* 2-D connectivity rows: quad, triangle, triangle whose distinct values are
\* not ascending, two distinct values, one distinct value.
FacetPool ==
    << <<0, 1, 2, 3>>, <<0, 1, 2, 2>>, <<2, 0, 0, 1>>, <<3, 3, 1, 1>>, <<1, 1, 1, 1>> >>

\* 3-D connectivity rows with 4, 8, 4 (not ascending), 1, 2, 3, 5, 6, 7 distinct values.
CellPool ==
    << <<1, 2, 3, 4, 4, 4, 4, 4>>, <<1, 2, 3, 4, 5, 6, 7, 8>>, <<7, 5, 3, 1, 1, 3, 5, 7>>,
       <<1, 1, 1, 1, 1, 1, 1, 1>>, <<2, 1, 2, 1, 2, 1, 2, 1>>, <<3, 2, 1, 1, 1, 1, 1, 1>>,
       <<5, 4, 3, 2, 1, 1, 1, 1>>, <<6, 5, 4, 3, 2, 1, 1, 1>>, <<7, 6, 5, 4, 3, 2, 1, 1>> >>

\* Part labels as read_text returns them.
LabelPool ==
    << <<"1", "0">>, <<"2", "0", " ", " ">>, <<" ", "3", "0">>, <<>>, <<"a", "b">>,
       <<"-", "5">>, <<"+", "7">>, <<"1", " ", "2">>, <<"0", "0", "7">>, <<"-">>,
       <<"2", "1", "4", "7", "4", "8", "3", "6", "4", "7">>,
       <<"2", "1", "4", "7", "4", "8", "3", "6", "4", "8">>,
       <<"-", "2", "1", "4", "7", "4", "8", "3", "6", "4", "8">>,
       <<"-", "2", "1", "4", "7", "4", "8", "3", "6", "4", "9">>,
       <<"4", "0", "0", "0", "0", "0", "0", "0", "0", "0", "0">> >>

-----------------------------------------------------------------------------
(* The input file built from a parameter record p:                          *)
(*   magic; the flag values mass, num, f3d, f1d, hier, th, sph;             *)
(*   nn nodes; n2 facets from FacetPool row o2; n3 volumes from CellPool    *)
(*   row o3; n1 line elements; ns particles; nfun named fields of every     *)
(*   kind; skew = orientation tables present; nsub subsets, materials and   *)
(*   properties; nth time-history entries; pfam = the family whose part     *)
(*   table is pb with labels from LabelPool row plo.                        *)
(* A family whose flag is clear is absent from the file.                    *)

BuildFrame(p) ==
    LET
        Erosion(n) == [k \in 1..n |-> IF k % 2 = 1 THEN 0 ELSE 7]
        \* n rows of a pool, starting at row o and wrapping around.
        Rows(pool, o, n) == [k \in 1..n |-> pool[((o + k - 2) % Len(pool)) + 1]]
        PartTable(p0, fam, n) ==
            LET
                \* The boundary table a producer writes for np non-empty parts: part k ends
                \* (exclusively) at element b[k], the last one at n.
                EvenBoundaries(np, n0) == [k \in 1..np |-> IF k = np THEN n0 ELSE k]
            IN
            IF p0.pfam = fam
            THEN [b |-> p0.pb, t |-> Rows(LabelPool, p0.plo, Len(p0.pb))]
            ELSE LET np == IF n > 0 THEN 1 ELSE 0
                 IN  [b |-> EvenBoundaries(np, n), t |-> Rows(LabelPool, 1, np)]
        FieldNames(letter, n) ==
            LET
                \* Field names "f k" and "t k": every name holds a space.
                FieldName(letter0, k) == <<letter0, " ", ToString(k)>>
            IN
            [k \in 1..n |-> FieldName(letter, k)]
        Iota(n, base) == [i \in 1..n |-> base + i]
    IN
    LET n3 == IF p.f3d # 0 THEN p.n3 ELSE 0
        n1 == IF p.f1d # 0 THEN p.n1 ELSE 0
        ns == IF p.sph # 0 THEN p.ns ELSE 0
        k3 == IF p.f3d # 0 THEN p.nfun ELSE 0
        k1 == IF p.f1d # 0 THEN p.nfun ELSE 0
        ks == IF p.sph # 0 THEN p.nfun ELSE 0
        pt2 == PartTable(p, "2d", p.n2)
        pt3 == IF p.f3d # 0 THEN PartTable(p, "3d", n3) ELSE [b |-> <<>>, t |-> <<>>]
        pt1 == IF p.f1d # 0 THEN PartTable(p, "1d", n1) ELSE [b |-> <<>>, t |-> <<>>]
        pts == IF p.sph # 0 THEN PartTable(p, "sph", ns) ELSE [b |-> <<>>, t |-> <<>>]
    IN  [ magic       |-> p.magic,
          a_time      |-> 5,
          flag_a      |-> <<p.mass, p.num, p.f3d, p.f1d, p.hier, p.th, 0, p.sph, 0, 0>>,
          \* 2-D block
          nb_nodes    |-> p.nn,
          nb_facets   |-> p.n2,
          nb_parts    |-> Len(pt2.b),
          nb_func     |-> p.nfun,
          nb_efunc    |-> p.nfun,
          nb_vect     |-> p.nfun,
          nb_tens     |-> p.nfun,
          nb_skew     |-> p.skew,
          coor_a      |-> Iota(3 * p.nn, 10),
          connect_a   |-> Flatten(Rows(FacetPool, p.o2, p.n2)),
          del_elt_a   |-> Erosion(p.n2),
          def_part_a  |-> pt2.b,
          p_text_a    |-> pt2.t,
          f_text_a    |-> FieldNames("f", 2 * p.nfun),
          func_a      |-> Iota(p.nn * p.nfun, 20),
          efunc_a     |-> Iota(p.n2 * p.nfun, 30),
          v_text_a    |-> FieldNames("v", p.nfun),
          vect_val_a  |-> Iota(3 * p.nn * p.nfun, 40),
          t_text_a    |-> FieldNames("t", p.nfun),
          tens_val_a  |-> Iota(p.n2 * 3 * p.nfun, 50),
          nod_num_a   |-> Iota(p.nn, 1000),
          el_num_a    |-> Iota(p.n2, 2000),
          \* 3-D block
          nb_elts_3d  |-> n3,
          nb_parts_3d |-> Len(pt3.b),
          nb_efunc_3d |-> k3,
          nb_tens_3d  |-> k3,
          connect_3d  |-> Flatten(Rows(CellPool, p.o3, n3)),
          del_elt_3d  |-> Erosion(n3),
          def_part_3d |-> pt3.b,
          p_text_3d   |-> pt3.t,
          f_text_3d   |-> FieldNames("g", k3),
          efunc_3d    |-> Iota(k3 * n3, 60),
          t_text_3d   |-> FieldNames("u", k3),
          tens_val_3d |-> Iota(n3 * 6 * k3, 0),
          el_num_3d   |-> Iota(n3, 3000),
          \* 1-D block
          nb_elts_1d  |-> n1,
          nb_parts_1d |-> Len(pt1.b),
          nb_efunc_1d |-> k1,
          nb_tors_1d  |-> k1,
          is_skew_1d  |-> IF p.f1d # 0 THEN p.skew ELSE 0,
          connect_1d  |-> Flatten([k \in 1..n1 |-> <<k - 1, k>>]),
          del_elt_1d  |-> Erosion(n1),
          def_part_1d |-> pt1.b,
          p_text_1d   |-> pt1.t,
          f_text_1d   |-> FieldNames("h", k1),
          efunc_1d    |-> Iota(k1 * n1, 80),
          t_text_1d   |-> FieldNames("w", k1),
          tors_val_1d |-> Iota(n1 * 9 * k1, 90),
          el_num_1d   |-> Iota(n1, 1500),
          \* hierarchy and time-history lists (read for alignment only)
          nb_subsets    |-> IF p.hier # 0 THEN p.nsub ELSE 0,
          nb_subset_son |-> p.nsub,
          nb_materials  |-> IF p.hier # 0 THEN p.nsub ELSE 0,
          nb_properties |-> IF p.hier # 0 THEN p.nsub ELSE 0,
          nb_th         |-> IF p.th # 0 THEN p.nth ELSE 0,
          \* SPH block
          nb_elts_sph  |-> ns,
          nb_parts_sph |-> Len(pts.b),
          nb_efunc_sph |-> ks,
          nb_tens_sph  |-> ks,
          connec_sph   |-> [k \in 1..ns |-> k - 1],
          del_elt_sph  |-> Erosion(ns),
          def_part_sph |-> pts.b,
          p_text_sph   |-> pts.t,
          scal_text_sph |-> FieldNames("s", ks),
          efunc_sph    |-> Iota(ks * ns, 110),
          tens_text_sph |-> FieldNames("x", ks),
          tens_val_sph |-> Iota(ns * ks * 6, 120),
          nod_num_sph  |-> Iota(ns, 4000) ]

-----------------------------------------------------------------------------
(* Bytes each read section of read_radioss_anim requests from a file f.     *)

Flag(f, k) == f.flag_a[k + 1]

SizeMagic == 4

SizeHeader == 4 + 3 * 81 + 10 * 4

Size2D(f) ==
      8 * 4
    + (IF f.nb_skew > 0 THEN f.nb_skew * 6 * 2 ELSE 0)
    + 3 * f.nb_nodes * 4
    + (IF f.nb_facets > 0 THEN f.nb_facets * 4 * 4 + f.nb_facets ELSE 0)
    + (IF f.nb_parts > 0 THEN f.nb_parts * 4 + f.nb_parts * 50 ELSE 0)
    + 3 * f.nb_nodes * 2
    + (IF f.nb_func + f.nb_efunc > 0
       THEN (f.nb_func + f.nb_efunc) * 81
            + (IF f.nb_func > 0 THEN f.nb_nodes * f.nb_func * 4 ELSE 0)
            + (IF f.nb_efunc > 0 THEN f.nb_facets * f.nb_efunc * 4 ELSE 0)
       ELSE 0)
    + (IF f.nb_vect > 0 THEN f.nb_vect * 81 ELSE 0)
    + 3 * f.nb_nodes * f.nb_vect * 4
    + (IF f.nb_tens > 0 THEN f.nb_tens * 81 + f.nb_facets * 3 * f.nb_tens * 4 ELSE 0)

SizeMass2D(f) ==
    IF Flag(f, 0) = 1 THEN f.nb_facets * 4 + f.nb_nodes * 4 ELSE 0

\* Variant: the external numbers are read whatever the flag.
SizeNumbering2D_Unconditional(f) == f.nb_nodes * 4 + f.nb_facets * 4

SizeNumbering2D(f) ==
    IF Flag(f, 1) # 0 THEN f.nb_nodes * 4 + f.nb_facets * 4 ELSE 0

SizeHierarchy2D(f) ==
    IF Flag(f, 4) # 0 THEN 3 * f.nb_parts * 4 ELSE 0

Size3D(f) ==
    IF Flag(f, 2) # 0
    THEN 4 * 4
         + f.nb_elts_3d * 8 * 4 + f.nb_elts_3d
         + f.nb_parts_3d * 4 + f.nb_parts_3d * 50
         + (IF f.nb_efunc_3d > 0
            THEN f.nb_efunc_3d * 81 + f.nb_efunc_3d * f.nb_elts_3d * 4 ELSE 0)
         + (IF f.nb_tens_3d > 0
            THEN f.nb_tens_3d * 81 + f.nb_elts_3d * 6 * f.nb_tens_3d * 4 ELSE 0)
         + (IF Flag(f, 0) = 1 THEN f.nb_elts_3d * 4 ELSE 0)
         + (IF Flag(f, 1) = 1 THEN f.nb_elts_3d * 4 ELSE 0)
         + (IF Flag(f, 4) # 0 THEN 3 * f.nb_parts_3d * 4 ELSE 0)
    ELSE 0

Size1D(f) ==
    IF Flag(f, 3) # 0
    THEN 5 * 4
         + f.nb_elts_1d * 2 * 4 + f.nb_elts_1d
         + f.nb_parts_1d * 4 + f.nb_parts_1d * 50
         + (IF f.nb_efunc_1d > 0
            THEN f.nb_efunc_1d * 81 + f.nb_efunc_1d * f.nb_elts_1d * 4 ELSE 0)
         + (IF f.nb_tors_1d > 0
            THEN f.nb_tors_1d * 81 + f.nb_elts_1d * 9 * f.nb_tors_1d * 4 ELSE 0)
         + (IF f.is_skew_1d # 0 THEN f.nb_elts_1d * 4 ELSE 0)
         + (IF Flag(f, 0) = 1 THEN f.nb_elts_1d * 4 ELSE 0)
         + (IF Flag(f, 1) = 1 THEN f.nb_elts_1d * 4 ELSE 0)
         + (IF Flag(f, 4) # 0 THEN 3 * f.nb_parts_1d * 4 ELSE 0)
    ELSE 0

SizeHierarchy(f) ==
    LET
        \* One subset: name, parent, then four counted lists (sons, 2-D, 3-D, 1-D parts).
        SizeSubset(f0) ==
            50 + 4 + 4 * 4
            + 4 * (IF f0.nb_subset_son > 0 THEN f0.nb_subset_son * 4 ELSE 0)
    IN
    IF Flag(f, 4) # 0
    THEN 4 + f.nb_subsets * SizeSubset(f)
         + 2 * 4
         + f.nb_materials * 50 + f.nb_materials * 4
         + f.nb_properties * 50 + f.nb_properties * 4
    ELSE 0

SizeTimeHistory(f) ==
    IF Flag(f, 5) # 0 THEN 4 * 4 + 4 * (f.nb_th * 4 + f.nb_th * 50) ELSE 0

SizeSPH(f) ==
    IF Flag(f, 7) # 0
    THEN 4 * 4
         + (IF f.nb_elts_sph > 0 THEN f.nb_elts_sph * 4 + f.nb_elts_sph ELSE 0)
         + (IF f.nb_parts_sph > 0 THEN f.nb_parts_sph * 4 + f.nb_parts_sph * 50 ELSE 0)
         + (IF f.nb_efunc_sph > 0
            THEN f.nb_efunc_sph * 81 + f.nb_efunc_sph * f.nb_elts_sph * 4 ELSE 0)
         + (IF f.nb_tens_sph > 0
            THEN f.nb_tens_sph * 81 + f.nb_elts_sph * f.nb_tens_sph * 6 * 4 ELSE 0)
         + (IF Flag(f, 0) = 1 THEN f.nb_elts_sph * 4 ELSE 0)
         + (IF Flag(f, 1) = 1 THEN f.nb_elts_sph * 4 ELSE 0)
         + (IF Flag(f, 4) # 0 THEN 3 * f.nb_parts_sph * 4 ELSE 0)
    ELSE 0

\* The read sections in stream order, and what a file of the supported
\* revision makes the decoder request in each.
SectionSizes(f) ==
    << SizeMagic, SizeHeader, Size2D(f), SizeMass2D(f), SizeNumbering2D(f),
       SizeHierarchy2D(f), Size3D(f), Size1D(f), SizeHierarchy(f),
       SizeTimeHistory(f), SizeSPH(f) >>

RECURSIVE SumSeq(_)
SumSeq(s) == IF s = <<>> THEN 0 ELSE Head(s) + SumSeq(Tail(s))

\* All the bytes the decoder requests from f.
BytesRequested(f) ==
    IF f.magic = FASTMAGI10 THEN SumSeq(SectionSizes(f)) ELSE SizeMagic

-----------------------------------------------------------------------------
(* Decode: the read sections of read_radioss_anim.                          *)

\* The locals before anything is read: counts 0, vectors Vec::new().
InitDec ==
    LET
        VecLocals ==
            {"coor_a", "connect_a", "del_elt_a", "def_part_a", "p_text_a", "f_text_a", "func_a",
             "efunc_a", "v_text_a", "vect_val_a", "t_text_a", "tens_val_a", "nod_num_a",
             "el_num_a", "connect_3d", "del_elt_3d", "def_part_3d", "p_text_3d", "f_text_3d",
             "efunc_3d", "t_text_3d", "tens_val_3d", "el_num_3d", "connect_1d", "del_elt_1d",
             "def_part_1d", "p_text_1d", "f_text_1d", "efunc_1d", "t_text_1d", "tors_val_1d",
             "el_num_1d", "connec_sph", "del_elt_sph", "def_part_sph", "p_text_sph",
             "scal_text_sph", "efunc_sph", "tens_text_sph", "tens_val_sph", "nod_num_sph"}
        NumLocals ==
            {"a_time", "nb_nodes", "nb_facets", "nb_parts", "nb_func", "nb_efunc", "nb_vect",
             "nb_tens", "nb_elts_3d", "nb_efunc_3d", "nb_tens_3d", "nb_elts_1d", "nb_parts_1d",
             "nb_efunc_1d", "nb_tors_1d", "nb_elts_sph", "nb_efunc_sph", "nb_tens_sph"}
    IN
    [x \in NumLocals |-> 0] @@ [x \in VecLocals |-> <<>>] @@ [flag_a |-> Zeros(10)]

\* The locals named in F take the values stored in the file.
Load(F) == [x \in F |-> frame[x]] @@ dec

\* The message of expect() in read_i32, read_f32, read_u16_vec, read_bytes.
ReadError == "Error in reading file"

\* Variant: a short read goes unnoticed.
ShortRead_Lenient(need) == FALSE

\* read_exact(..).expect(..): the stream holds fewer than `need` more bytes.
ShortRead(need) == inPos + need > inLen

\* A panic unwinds out of read_radioss_anim: the BufWriter is dropped, which
\* flushes what was written to it into the output file.
Panic(msg) ==
    /\ abortAt' = pc
    /\ pc' = "aborted"
    /\ retained' = out'
    /\ stderr' = Append(stderr, msg)

\* One read section: abort on a short read, else consume and store.
ReadSection(at, need, next, loaded) ==
    /\ pc = at
    /\ IF ShortRead(need)
       THEN /\ inPos' = inLen
            /\ out' = out
            /\ Panic(ReadError)
            /\ UNCHANGED <<caller, frame, inLen, binary_format, dec, cur>>
       ELSE /\ inPos' = inPos + need
            /\ dec' = loaded
            /\ pc' = next
            /\ UNCHANGED <<caller, frame, inLen, binary_format, out, cur, retained, abortAt, stderr>>

\* File::open(file_name).unwrap_or_else(|_| { eprintln!(..); process::exit(1) })
OpenInput ==
    /\ pc = "open"
    /\ IF input.openable
       THEN /\ pc' = "read_magic"
            /\ UNCHANGED <<retained, abortAt, stderr>>
       ELSE /\ pc' = "aborted"
            /\ abortAt' = "open"
            /\ retained' = <<>>
            /\ stderr' = Append(stderr, "Can't open input file " \o input.file_name)
    /\ UNCHANGED <<caller, frame, inLen, inPos, binary_format, dec, out, cur>>

\* Variant: every revision is accepted.
MagicOk_AnyRevision(magic) == TRUE

MagicOk(magic) == magic = FASTMAGI10

\* let magic = read_i32(..); match magic { FASTMAGI10 => .., _ => process::exit(1) }
ReadMagic ==
    /\ pc = "read_magic"
    /\ IF ShortRead(SizeMagic)
       THEN /\ inPos' = inLen
            /\ out' = out
            /\ Panic(ReadError)
            /\ UNCHANGED <<caller, frame, inLen, binary_format, dec, cur>>
       ELSE /\ inPos' = inPos + SizeMagic
            /\ IF MagicOk(frame.magic)
               THEN /\ pc' = "read_header"
                    /\ UNCHANGED <<retained, abortAt, stderr>>
               ELSE \* process::exit(1): no destructor runs, nothing was written
                    /\ pc' = "aborted"
                    /\ abortAt' = "bad_magic"
                    /\ retained' = <<>>
                    /\ stderr' = Append(stderr, "Error in Anim Files version")
            /\ UNCHANGED <<caller, frame, inLen, binary_format, dec, out, cur>>

ReadHeader ==
    ReadSection("read_header", SizeHeader, "read_2d", Load({"a_time", "flag_a"}))

Read2DGeometry ==
    ReadSection("read_2d", Size2D(frame), "read_mass",
        Load({"nb_nodes", "nb_facets", "nb_parts", "nb_func", "nb_efunc", "nb_vect",
              "nb_tens", "coor_a", "connect_a", "del_elt_a", "def_part_a", "p_text_a",
              "f_text_a", "func_a", "efunc_a", "v_text_a", "vect_val_a", "t_text_a",
              "tens_val_a"}))

ReadMass2D ==
    ReadSection("read_mass", SizeMass2D(frame), "read_numbering", dec)

ReadNumbering2D ==
    ReadSection("read_numbering", SizeNumbering2D(frame), "read_hier2d",
        IF dec.flag_a[2] # 0 THEN Load({"nod_num_a", "el_num_a"}) ELSE dec)

ReadHierarchy2D ==
    ReadSection("read_hier2d", SizeHierarchy2D(frame), "read_3d", dec)

Read3DGeometry ==
    ReadSection("read_3d", Size3D(frame), "read_1d",
        IF dec.flag_a[3] # 0
        THEN Load({"nb_elts_3d", "nb_efunc_3d", "nb_tens_3d", "connect_3d", "del_elt_3d",
                   "def_part_3d", "p_text_3d", "f_text_3d", "efunc_3d", "t_text_3d",
                   "tens_val_3d"}
                  \cup (IF dec.flag_a[2] = 1 THEN {"el_num_3d"} ELSE {}))
        ELSE dec)

Read1DGeometry ==
    ReadSection("read_1d", Size1D(frame), "read_hierarchy",
        IF dec.flag_a[4] # 0
        THEN Load({"nb_elts_1d", "nb_parts_1d", "nb_efunc_1d", "nb_tors_1d", "connect_1d",
                   "del_elt_1d", "def_part_1d", "p_text_1d", "f_text_1d", "efunc_1d",
                   "t_text_1d", "tors_val_1d"}
                  \cup (IF dec.flag_a[2] = 1 THEN {"el_num_1d"} ELSE {}))
        ELSE dec)

ReadHierarchy ==
    ReadSection("read_hierarchy", SizeHierarchy(frame), "read_th", dec)

\* Variant: the output starts before the SPH block is read.
ReadTimeHistory_SkipsSph ==
    ReadSection("read_th", SizeTimeHistory(frame), "write_header", dec)

ReadTimeHistory ==
    ReadSection("read_th", SizeTimeHistory(frame), "read_sph", dec)

ReadSPH ==
    ReadSection("read_sph", SizeSPH(frame), "write_header",
        IF dec.flag_a[8] # 0
        THEN Load({"nb_elts_sph", "nb_efunc_sph", "nb_tens_sph", "connec_sph",
                   "del_elt_sph", "def_part_sph", "p_text_sph", "scal_text_sph",
                   "efunc_sph", "tens_text_sph", "tens_val_sph"}
                  \cup (IF dec.flag_a[2] = 1 THEN {"nod_num_sph"} ELSE {}))
        ELSE dec)

-----------------------------------------------------------------------------
(* Serialization: the write sections of read_radioss_anim.  What a write     *)
(* call puts in the file is a chunk: a text line (writeln! of a literal or  *)
(* of a format string without numbers), a line of numbers (writeln! of      *)
(* formatted values, ASCII branch), or a run of big-endian primitives       *)
(* (write_*_binary, binary branch).  A written section is a record: sec its *)
(* keyword, name its field name, enc the format of the file, hdr the counts *)
(* its header line declares, vals its values in write order, rows its cells *)
(* (CELLS only), chunks what the write calls produced.                      *)

Line(s) == [t |-> "line", s |-> s, v |-> <<>>]

Nums(v) == [t |-> "nums", s |-> "", v |-> v]

\* kind is "i32", "f32" or "f64": write_i32_binary, write_f32_binary,
\* write_f64_binary.
Prims(kind, v) == [t |-> kind, s |-> "", v |-> v]

\* A name as the text a {} placeholder prints.
RECURSIVE Join(_)
Join(name) == IF name = <<>> THEN "" ELSE Head(name) \o Join(Tail(name))

Section(sec, name, hdr, rows, chunks) ==
    LET
        Enc == IF binary_format THEN "BINARY" ELSE "ASCII"
        Values(chunks0) == Flatten([i \in 1..Len(chunks0) |-> chunks0[i].v])
    IN
    [sec |-> sec, name |-> name, enc |-> Enc, hdr |-> hdr,
     vals |-> Values(chunks), rows |-> rows, chunks |-> chunks]

\* A write section that cannot fail.
Emit(at, next, recs) ==
    /\ pc = at
    /\ out' = out \o recs
    /\ pc' = next
    /\ UNCHANGED <<caller, frame, inLen, inPos, binary_format, dec, cur, retained, abortAt, stderr>>

\* A write section that indexes a vector: `ok` is false when an index falls
\* outside it, and recs is then what was written before the panic.
EmitChecked(at, next, recs, ok) ==
    LET
        \* The message of a Vec indexed outside its length.
        IndexError == "index out of bounds"
    IN
    /\ pc = at
    /\ out' = out \o recs
    /\ IF ok
       THEN /\ pc' = next
            /\ UNCHANGED <<retained, abortAt, stderr>>
       ELSE Panic(IndexError)
    /\ UNCHANGED <<caller, frame, inLen, inPos, binary_format, dec, cur>>

\* for i in 0..n { write(vec[i]) }: the values written, and whether every
\* index was inside vec.
Indexed(vec, n) ==
    [ok |-> n <= Len(vec), vals |-> SubSeq(vec, 1, IF n <= Len(vec) THEN n ELSE Len(vec))]

\* Loops run one after the other: the first failing one ends the writing.
RECURSIVE Chain(_)
Chain(loops) ==
    IF loops = <<>> THEN [ok |-> TRUE, vals |-> <<>>]
    ELSE IF ~Head(loops).ok THEN Head(loops)
    ELSE LET rest == Chain(Tail(loops))
         IN  [ok |-> rest.ok, vals |-> Head(loops).vals \o rest.vals]

\* One writeln!("{}", v) per value.
OnePerLine(vals) == [i \in 1..Len(vals) |-> Nums(<<vals[i]>>)]

WriteHeader ==
    LET
        \* The file header and the FIELD block: TIME is a_time, CYCLE is 0.
        HeaderRecs(bin) ==
            << Section("HEADER", <<>>, <<>>, <<>>,
                       << Line("# vtk DataFile Version 3.0"),
                          Line("vtk output"),
                          Line(IF bin THEN "BINARY" ELSE "ASCII"),
                          Line("DATASET UNSTRUCTURED_GRID") >>),
               Section("FIELD", <<>>, <<2>>, <<>>,
                       << Line("FIELD FieldData 2"), Line("TIME 1 1 double") >>
                    \o (IF bin
                        THEN << Prims("f64", <<dec.a_time>>), Line("") >>
                        ELSE << Nums(<<dec.a_time>>) >>)
                    \o << Line("CYCLE 1 1 int") >>
                    \o (IF bin
                        THEN << Prims("i32", <<0>>), Line("") >>
                        ELSE << Nums(<<0>>) >>)) >>
    IN
    Emit("write_header", "write_points", HeaderRecs(binary_format))

WritePoints ==
    LET
        PointsRecs(bin) ==
            LET
                \* The three coordinates of node inod (0-based).
                Point(inod) ==
                    << dec.coor_a[3 * inod + 1], dec.coor_a[3 * inod + 2], dec.coor_a[3 * inod + 3] >>
                PointsAscii == [k \in 1..dec.nb_nodes |-> Nums(Point(k - 1))]
                PointsBinary ==
                    << Prims("f32", Flatten([k \in 1..dec.nb_nodes |-> Point(k - 1)])) >>
            IN
            << Section("POINTS", <<>>, <<dec.nb_nodes>>, <<>>,
                       << Line("POINTS " \o ToString(dec.nb_nodes) \o " float") >>
                    \o (IF bin THEN PointsBinary ELSE PointsAscii)
                    \o << Line("") >>) >>
    IN
    Emit("write_points", "write_cells", PointsRecs(binary_format))

(* Geometry classifier *)

\* The BTreeSet filled with the `width` indices of cell icon (0-based).
NodeSet(conn, icon, width) == {conn[icon * width + i + 1] : i \in 0..(width - 1)}

\* Iteration over a BTreeSet: ascending.
RECURSIVE BTreeIter(_)
BTreeIter(S) ==
    IF S = {} THEN <<>> ELSE <<SetMin(S)>> \o BTreeIter(S \ {SetMin(S)})

is_3d_cell_tetrahedron(icon) == Cardinality(NodeSet(dec.connect_3d, icon, 8)) = 4

is_2d_triangle(icon) == Cardinality(NodeSet(dec.connect_a, icon, 4)) = 3

tetrahedron_count ==
    Cardinality({icon \in 0..(dec.nb_elts_3d - 1) : is_3d_cell_tetrahedron(icon)})

total_cells == dec.nb_elts_1d + dec.nb_facets + dec.nb_elts_3d + dec.nb_elts_sph

\* Variant: every 3-D cell is counted with 8 nodes.
cells_size_AllHexa ==
      dec.nb_elts_1d * 3
    + dec.nb_facets * 5
    + dec.nb_elts_3d * 9
    + dec.nb_elts_sph * 2

cells_size ==
      dec.nb_elts_1d * 3
    + dec.nb_facets * 5
    + tetrahedron_count * 5
    + (dec.nb_elts_3d - tetrahedron_count) * 9
    + dec.nb_elts_sph * 2

(* CELLS: each row is the node count followed by the node indices.  The     *)
(* ASCII branch formats a row as one line, the binary branch writes its     *)
(* numbers one write_i32_binary at a time.                                  *)

\* Variant: the tetrahedron keeps the order in which its indices are stored.
Cell3D_Unsorted(icon) ==
    LET c == [i \in 1..8 |-> dec.connect_3d[icon * 8 + i]]
        firsts == {i \in 1..8 : \A j \in 1..(i - 1) : c[j] # c[i]}
    IN  IF is_3d_cell_tetrahedron(icon)
        THEN <<4>> \o [k \in 1..4 |-> c[BTreeIter(firsts)[k]]]
        ELSE <<8>> \o c

Cell3D(icon) ==
    IF is_3d_cell_tetrahedron(icon)
    THEN <<4>> \o BTreeIter(NodeSet(dec.connect_3d, icon, 8))
    ELSE <<8>> \o [i \in 1..8 |-> dec.connect_3d[icon * 8 + i]]

\* Variant: the binary branch writes every 3-D cell with its 8 stored indices.
Cell3DBinary_AlwaysHexa(icon) ==
    <<8>> \o [k \in 1..8 |-> dec.connect_3d[icon * 8 + (k - 1) + 1]]

Cell3DBinary(icon) ==
    IF is_3d_cell_tetrahedron(icon)
    THEN <<4>> \o BTreeIter(NodeSet(dec.connect_3d, icon, 8))
    ELSE <<8>> \o [k \in 1..8 |-> dec.connect_3d[icon * 8 + (k - 1) + 1]]

CellRows ==
    LET
        CellSPH(icon) == <<1, dec.connec_sph[icon + 1]>>
        Cell2D(icon) ==
            <<4, dec.connect_a[icon * 4 + 1], dec.connect_a[icon * 4 + 2],
                 dec.connect_a[icon * 4 + 3], dec.connect_a[icon * 4 + 4]>>
        Cell1D(icon) == <<2, dec.connect_1d[icon * 2 + 1], dec.connect_1d[icon * 2 + 2]>>
    IN
       [k \in 1..dec.nb_elts_1d |-> Cell1D(k - 1)]
    \o [k \in 1..dec.nb_facets |-> Cell2D(k - 1)]
    \o [k \in 1..dec.nb_elts_3d |-> Cell3D(k - 1)]
    \o [k \in 1..dec.nb_elts_sph |-> CellSPH(k - 1)]

CellRowsBinary ==
    LET
        CellSPHBinary(icon) == <<1>> \o <<dec.connec_sph[icon + 1]>>
        Cell2DBinary(icon) ==
            <<4>> \o [k \in 1..4 |-> dec.connect_a[icon * 4 + (k - 1) + 1]]
        Cell1DBinary(icon) ==
            <<2>> \o <<dec.connect_1d[icon * 2 + 1]>> \o <<dec.connect_1d[icon * 2 + 2]>>
    IN
       [k \in 1..dec.nb_elts_1d |-> Cell1DBinary(k - 1)]
    \o [k \in 1..dec.nb_facets |-> Cell2DBinary(k - 1)]
    \o [k \in 1..dec.nb_elts_3d |-> Cell3DBinary(k - 1)]
    \o [k \in 1..dec.nb_elts_sph |-> CellSPHBinary(k - 1)]

\* writeln!(out) alone: an empty line after what was written last.
BlankLine(o) == [o EXCEPT ![Len(o)].chunks = Append(@, Line(""))]

WriteCells ==
    LET
        \* The CELLS block is written for a frame with cells only; the empty line
        \* that follows it is written in every case.
        CellsOut(bin, o) ==
            IF total_cells > 0
            THEN Append(o,
                     Section("CELLS", <<>>, <<total_cells, cells_size>>,
                             IF bin THEN CellRowsBinary ELSE CellRows,
                             << Line("CELLS " \o ToString(total_cells) \o " "
                                              \o ToString(cells_size)) >>
                          \o (IF bin
                              THEN << Prims("i32", Flatten(CellRowsBinary)) >>
                              ELSE [k \in 1..Len(CellRows) |-> Nums(CellRows[k])])
                          \o << Line("") >>))
            ELSE BlankLine(o)
    IN
    /\ pc = "write_cells"
    /\ out' = CellsOut(binary_format, out)
    /\ pc' = "write_cell_types"
    /\ UNCHANGED <<caller, frame, inLen, inPos, binary_format, dec, cur, retained, abortAt, stderr>>

(* CELL_TYPES *)

\* Variant: every facet is tagged as a quad.
CellType2D_AlwaysQuad(icon) == 9

CellType2D(icon) == IF is_2d_triangle(icon) THEN 5 ELSE 9

\* The type codes in write order; both branches run the same four loops.
CellTypes ==
    LET
        CellType3D(icon) == IF is_3d_cell_tetrahedron(icon) THEN 10 ELSE 12
    IN
       [k \in 1..dec.nb_elts_1d |-> 3]
    \o [k \in 1..dec.nb_facets |-> CellType2D(k - 1)]
    \o [k \in 1..dec.nb_elts_3d |-> CellType3D(k - 1)]
    \o [k \in 1..dec.nb_elts_sph |-> 1]

CellTypesBinary ==
       [k \in 1..dec.nb_elts_1d |-> 3]
    \o [k \in 1..dec.nb_facets |-> IF is_2d_triangle(k - 1) THEN 5 ELSE 9]
    \o [k \in 1..dec.nb_elts_3d |-> IF is_3d_cell_tetrahedron(k - 1) THEN 10 ELSE 12]
    \o [k \in 1..dec.nb_elts_sph |-> 1]

WriteCellTypes ==
    LET
        CellTypesOut(bin, o) ==
            IF total_cells > 0
            THEN Append(o,
                     Section("CELL_TYPES", <<>>, <<total_cells>>, <<>>,
                             << Line("CELL_TYPES " \o ToString(total_cells)) >>
                          \o (IF bin
                              THEN << Prims("i32", CellTypesBinary) >>
                              ELSE OnePerLine(CellTypes))
                          \o << Line("") >>))
            ELSE BlankLine(o)
    IN
    /\ pc = "write_cell_types"
    /\ out' = CellTypesOut(binary_format, out)
    /\ pc' = "write_node_id"
    /\ UNCHANGED <<caller, frame, inLen, inPos, binary_format, dec, cur, retained, abortAt, stderr>>

(* POINT_DATA *)

\* Variant: the name is written as it was read.
replace_underscore_Keep(s) == s

replace_underscore(s) == [i \in 1..Len(s) |-> IF s[i] = " " THEN "_" ELSE s[i]]

\* An indexing loop as chunks; the empty line after it is written only when
\* the loop ran to its end.
IdChunks(bin, ids) ==
       (IF bin THEN << Prims("i32", ids.vals) >> ELSE OnePerLine(ids.vals))
    \o (IF ids.ok THEN << Line("") >> ELSE <<>>)

\* POINT_DATA header, then NODE_ID: nod_num_a[inod] for every node.
WriteNodeId ==
    LET
        NodeIdRecs(bin, ids) ==
            << Section("POINT_DATA", <<>>, <<dec.nb_nodes>>, <<>>,
                       << Line("POINT_DATA " \o ToString(dec.nb_nodes)) >>),
               Section("NODE_ID", <<>>, <<>>, <<>>,
                       << Line("SCALARS NODE_ID int 1"), Line("LOOKUP_TABLE default") >>
                    \o IdChunks(bin, ids)) >>
    IN
    LET ids == Indexed(dec.nod_num_a, dec.nb_nodes)
    IN  EmitChecked("write_node_id", "write_point_fields",
                    NodeIdRecs(binary_format, ids), ids.ok)

\* Variant: the nodal scalar is headed by the name of the facet scalar of
\* the same rank.
NodalScalar_FacetName(bin, ifun) ==
    LET
        NodalScalarValues(ifun0) ==
            [inod \in 1..dec.nb_nodes |-> dec.func_a[ifun0 * dec.nb_nodes + inod]]
        name == replace_underscore(dec.f_text_a[ifun + dec.nb_func + 1])
    IN
    Section("SCALARS", name, <<>>, <<>>,
            << Line("SCALARS " \o Join(name) \o " float 1"),
               Line("LOOKUP_TABLE default") >>
         \o (IF bin
             THEN << Prims("f32", NodalScalarValues(ifun)) >>
             ELSE OnePerLine(NodalScalarValues(ifun)))
         \o << Line("") >>)

NodalScalar(bin, ifun) ==
    LET
        NodalScalarValues(ifun0) ==
            [inod \in 1..dec.nb_nodes |-> dec.func_a[ifun0 * dec.nb_nodes + inod]]
    IN
    Section("SCALARS", replace_underscore(dec.f_text_a[ifun + 1]), <<>>, <<>>,
            << Line("SCALARS " \o Join(replace_underscore(dec.f_text_a[ifun + 1]))
                               \o " float 1"),
               Line("LOOKUP_TABLE default") >>
         \o (IF bin
             THEN << Prims("f32", NodalScalarValues(ifun)) >>
             ELSE OnePerLine(NodalScalarValues(ifun)))
         \o << Line("") >>)

NodalVector(bin, ivect) ==
    LET
        \* The three components of vector ivect at node inod (both 0-based).
        NodalVectorAt(ivect0, inod) ==
            << dec.vect_val_a[3 * inod + ivect0 * 3 * dec.nb_nodes + 1],
               dec.vect_val_a[3 * inod + 1 + ivect0 * 3 * dec.nb_nodes + 1],
               dec.vect_val_a[3 * inod + 2 + ivect0 * 3 * dec.nb_nodes + 1] >>
    IN
    Section("VECTORS", replace_underscore(dec.v_text_a[ivect + 1]), <<>>, <<>>,
            << Line("VECTORS " \o Join(replace_underscore(dec.v_text_a[ivect + 1]))
                               \o " float") >>
         \o (IF bin
             THEN << Prims("f32",
                           Flatten([k \in 1..dec.nb_nodes |-> NodalVectorAt(ivect, k - 1)])) >>
             ELSE [k \in 1..dec.nb_nodes |-> Nums(NodalVectorAt(ivect, k - 1))])
         \o << Line("") >>)

WritePointFields ==
    LET
        PointFieldsRecs(bin) ==
               [k \in 1..dec.nb_func |-> NodalScalar(bin, k - 1)]
            \o [k \in 1..dec.nb_vect |-> NodalVector(bin, k - 1)]
    IN
    Emit("write_point_fields", "write_element_id", PointFieldsRecs(binary_format))

(* CELL_DATA: ELEMENT_ID *)

\* Variant: the numbers are written in the order of the blocks of the stream.
ElementIds_StreamOrder ==
    Chain(<< Indexed(dec.el_num_a, dec.nb_facets),
             Indexed(dec.el_num_3d, dec.nb_elts_3d),
             Indexed(dec.el_num_1d, dec.nb_elts_1d),
             Indexed(dec.nod_num_sph, dec.nb_elts_sph) >>)

ElementIds ==
    Chain(<< Indexed(dec.el_num_1d, dec.nb_elts_1d),
             Indexed(dec.el_num_a, dec.nb_facets),
             Indexed(dec.el_num_3d, dec.nb_elts_3d),
             Indexed(dec.nod_num_sph, dec.nb_elts_sph) >>)

WriteElementId ==
    LET
        ElementIdRecs(bin, ids) ==
            << Section("CELL_DATA", <<>>, <<total_cells>>, <<>>,
                       << Line("CELL_DATA " \o ToString(total_cells)) >>),
               Section("ELEMENT_ID", <<>>, <<>>, <<>>,
                       << Line("SCALARS ELEMENT_ID int 1"), Line("LOOKUP_TABLE default") >>
                    \o IdChunks(bin, ids)) >>
    IN
    EmitChecked("write_element_id", "write_part_id_header",
                ElementIdRecs(binary_format, ElementIds), ElementIds.ok)

(* CELL_DATA: PART_ID *)

IsWhite(c) == c = " "

\* str::trim: leading and trailing whitespace removed.
RECURSIVE TrimStart(_)
TrimStart(s) == IF s # <<>> /\ IsWhite(Head(s)) THEN TrimStart(Tail(s)) ELSE s

RECURSIVE TrimEnd(_)
TrimEnd(s) ==
    IF s # <<>> /\ IsWhite(s[Len(s)]) THEN TrimEnd(SubSeq(s, 1, Len(s) - 1)) ELSE s

\* The digit loop of i32::from_str: checked_mul(10), then checked_add of the
\* digit (checked_sub for a negative number); any other character is an error.
RECURSIVE FromDigits(_, _, _)
FromDigits(ds, acc, neg) ==
    LET
        Digits == <<"0", "1", "2", "3", "4", "5", "6", "7", "8", "9">>
        DigitVal(c) == (CHOOSE i \in 1..10 : Digits[i] = c) - 1
        IsDigit(c) == \E i \in 1..10 : Digits[i] = c
    IN
    IF ds = <<>> THEN [ok |-> TRUE, val |-> acc]
    ELSE IF ~IsDigit(Head(ds)) THEN [ok |-> FALSE, val |-> 0]
    ELSE LET d == DigitVal(Head(ds))
         IN  IF neg
             THEN IF acc < -(I32_MAX \div 10) \/ acc * 10 < (-I32_MAX - 1) + d
                  THEN [ok |-> FALSE, val |-> 0]
                  ELSE FromDigits(Tail(ds), acc * 10 - d, neg)
             ELSE IF acc > I32_MAX \div 10 \/ acc * 10 > I32_MAX - d
                  THEN [ok |-> FALSE, val |-> 0]
                  ELSE FromDigits(Tail(ds), acc * 10 + d, neg)

\* str::parse::<i32>: optional sign, then at least one digit.
ParseI32(s) ==
    IF s = <<>> THEN [ok |-> FALSE, val |-> 0]
    ELSE IF Head(s) \in {"+", "-"}
         THEN IF Tail(s) = <<>> THEN [ok |-> FALSE, val |-> 0]
              ELSE FromDigits(Tail(s), 0, Head(s) = "-")
         ELSE FromDigits(s, 0, FALSE)

\* Variant: the label is parsed without trimming.
PartLabelId_NoTrim(text) ==
    LET r == ParseI32(text) IN IF r.ok THEN r.val ELSE 0

\* p_text[..].trim().parse().unwrap_or(0)
PartLabelId(text) ==
    LET
        Trim(s) == TrimEnd(TrimStart(s))
    IN
    LET r == ParseI32(Trim(text)) IN IF r.ok THEN r.val ELSE 0

\* Variant: the cursor advances one element early.
AdvanceCursor_OneEarly(index, nbParts, defPart, iel) ==
    IF index < nbParts /\ iel + 1 = defPart[index + 1] THEN index + 1 ELSE index

\* The cursor of one family after the test made for element iel (the loops
\* of the binary branch).
AdvanceCursor(index, nbParts, defPart, iel) ==
    IF index < nbParts /\ iel = defPart[index + 1] THEN index + 1 ELSE index

InitCur == [x \in {"1d", "2d", "3d", "sph"} |-> 0]

\* Header lines of PART_ID; the four cursors start at 0.
WritePartIdHeader ==
    LET
        PartIdHeader ==
            Section("PART_ID", <<>>, <<>>, <<>>,
                    << Line("SCALARS PART_ID int 1"), Line("LOOKUP_TABLE default") >>)
    IN
    /\ pc = "write_part_id_header"
    /\ out' = Append(out, PartIdHeader)
    /\ cur' = InitCur
    /\ pc' = "write_part_id"
    /\ UNCHANGED <<caller, frame, inLen, inPos, binary_format, dec, retained, abortAt, stderr>>

\* Cells of PART_ID written so far.
PartIdsWritten == Len(out[Len(out)].vals)

\* One iteration of the PART_ID loops of a branch, for the next cell in
\* output order: the family, where its cursor stands afterwards, the ID and
\* the chunk written.
PartIdStep(bin) ==
    LET
        \* Part count, boundary table and labels the loop of a family works on.
        PartsOf(fam) ==
            CASE fam = "1d"  -> [n |-> dec.nb_parts_1d, b |-> dec.def_part_1d, t |-> dec.p_text_1d]
              [] fam = "2d"  -> [n |-> dec.nb_parts, b |-> dec.def_part_a, t |-> dec.p_text_a]
              [] fam = "3d"  -> [n |-> Len(dec.p_text_3d), b |-> dec.def_part_3d, t |-> dec.p_text_3d]
              [] fam = "sph" -> [n |-> Len(dec.p_text_sph), b |-> dec.def_part_sph,
                                 t |-> dec.p_text_sph]
        IndexInFamily(k) ==
            IF k < dec.nb_elts_1d THEN k
            ELSE IF k < dec.nb_elts_1d + dec.nb_facets THEN k - dec.nb_elts_1d
            ELSE IF k < dec.nb_elts_1d + dec.nb_facets + dec.nb_elts_3d
                 THEN k - dec.nb_elts_1d - dec.nb_facets
            ELSE k - dec.nb_elts_1d - dec.nb_facets - dec.nb_elts_3d
        \* The family of cell k (0-based, in output order) and its index in the family.
        FamilyOf(k) ==
            IF k < dec.nb_elts_1d THEN "1d"
            ELSE IF k < dec.nb_elts_1d + dec.nb_facets THEN "2d"
            ELSE IF k < dec.nb_elts_1d + dec.nb_facets + dec.nb_elts_3d THEN "3d"
            ELSE "sph"
        \* ASCII branch: writeln! of val or of the literal "0".
        PartIdAtAscii(index, nbParts, pText) ==
            IF index < nbParts THEN PartLabelId(pText[index + 1]) ELSE 0
        \* The ID written for an element once the cursor stands at index (binary
        \* branch: write_i32_binary of val or of 0).
        PartIdAt(index, nbParts, pText) ==
            IF index < nbParts THEN PartLabelId(pText[index + 1]) ELSE 0
        \* The same test in the loops of the ASCII branch.
        AdvanceCursorAscii(index, nbParts, defPart, iel) ==
            IF index < nbParts /\ iel = defPart[index + 1] THEN index + 1 ELSE index
    IN
    LET fam == FamilyOf(PartIdsWritten)
        iel == IndexInFamily(PartIdsWritten)
        pt == PartsOf(fam)
        index == IF bin THEN AdvanceCursor(cur[fam], pt.n, pt.b, iel)
                        ELSE AdvanceCursorAscii(cur[fam], pt.n, pt.b, iel)
        val == IF bin THEN PartIdAt(index, pt.n, pt.t)
                      ELSE PartIdAtAscii(index, pt.n, pt.t)
    IN  [fam |-> fam, index |-> index, val |-> val,
         chunk |-> IF bin THEN Prims("i32", <<val>>) ELSE Nums(<<val>>)]

ResolvePartId ==
    /\ pc = "write_part_id"
    /\ PartIdsWritten < total_cells
    /\ LET step == PartIdStep(binary_format)
       IN  /\ cur' = [cur EXCEPT ![step.fam] = step.index]
           /\ out' = [out EXCEPT ![Len(out)].vals = Append(@, step.val),
                                 ![Len(out)].chunks = Append(@, step.chunk)]
    /\ UNCHANGED <<pc, caller, frame, inLen, inPos, binary_format, dec, retained, abortAt, stderr>>

\* The loops are over: the empty line that ends PART_ID.
EndPartId ==
    /\ pc = "write_part_id"
    /\ PartIdsWritten = total_cells
    /\ out' = BlankLine(out)
    /\ pc' = "write_erosion"
    /\ UNCHANGED <<caller, frame, inLen, inPos, binary_format, dec, cur, retained, abortAt, stderr>>

(* CELL_DATA: EROSION_STATUS *)

ErosionStatus(del) == [iel \in 1..Len(del) |-> IF del[iel] # 0 THEN 1 ELSE 0]

WriteErosion ==
    LET
        ErosionRecs(bin) ==
            LET
                ErosionValues ==
                       ErosionStatus(SubSeq(dec.del_elt_1d, 1, dec.nb_elts_1d))
                    \o ErosionStatus(SubSeq(dec.del_elt_a, 1, dec.nb_facets))
                    \o ErosionStatus(SubSeq(dec.del_elt_3d, 1, dec.nb_elts_3d))
                    \o ErosionStatus(SubSeq(dec.del_elt_sph, 1, dec.nb_elts_sph))
            IN
            << Section("EROSION_STATUS", <<>>, <<>>, <<>>,
                       << Line("SCALARS EROSION_STATUS int 1"), Line("LOOKUP_TABLE default") >>
                    \o (IF bin THEN << Prims("i32", ErosionValues) >> ELSE OnePerLine(ErosionValues))
                    \o << Line("") >>) >>
    IN
    Emit("write_erosion", "write_family_fields", ErosionRecs(binary_format))

(* CELL_DATA: named fields of the families.  width is the number of values *)
(* per cell: 1 for a scalar, 9 for a tensor.  The binary branch writes the  *)
(* values one write_f32_binary at a time; the ASCII branch writes a scalar  *)
(* as one line and a tensor as three lines of three numbers.                *)

\* The values of the binary branch: those of the family that owns the field,
\* zeros in the loops of the other families.
InFamilyOrder(width, fam, own) ==
       (IF fam = "1d" THEN own ELSE Zeros(width * dec.nb_elts_1d))
    \o (IF fam = "2d" THEN own ELSE Zeros(width * dec.nb_facets))
    \o (IF fam = "3d" THEN own ELSE Zeros(width * dec.nb_elts_3d))
    \o (IF fam = "sph" THEN own ELSE Zeros(width * dec.nb_elts_sph))

\* A line of numbers that ends with a space before the newline.
NumsSp(v) == [t |-> "nums", s |-> " ", v |-> v]

\* The lines of the ASCII branch: pad is what one cell of another family gets.
InFamilyLines(fam, own, pad) ==
    LET
        Repeat(n, chunks) == Flatten([k \in 1..n |-> chunks])
    IN
       (IF fam = "1d" THEN own ELSE Repeat(dec.nb_elts_1d, pad))
    \o (IF fam = "2d" THEN own ELSE Repeat(dec.nb_facets, pad))
    \o (IF fam = "3d" THEN own ELSE Repeat(dec.nb_elts_3d, pad))
    \o (IF fam = "sph" THEN own ELSE Repeat(dec.nb_elts_sph, pad))

\* A scalar field of a family: header lines, the loops of the branch, the
\* empty line.
ScalarField(bin, prefix, text, fam, own) ==
    LET
        \* writeln!("0")
        ZeroLine == << Nums(<<0>>) >>
    IN
    Section("SCALARS", <<prefix>> \o text, <<>>, <<>>,
            << Line("SCALARS " \o prefix \o Join(text) \o " float 1"),
               Line("LOOKUP_TABLE default") >>
         \o (IF bin
             THEN << Prims("f32", InFamilyOrder(1, fam, own)) >>
             ELSE InFamilyLines(fam, OnePerLine(own), ZeroLine))
         \o << Line("") >>)

\* A tensor field of a family: ownBin the 9 values per cell of the binary
\* branch, ownAscii the three lines per cell of the ASCII branch.
TensorField(bin, prefix, text, fam, ownBin, ownAscii) ==
    LET
        \* writeln!("0 0 0 ") three times
        ZeroRows == << NumsSp(<<0, 0, 0>>), NumsSp(<<0, 0, 0>>), NumsSp(<<0, 0, 0>>) >>
    IN
    Section("TENSORS", <<prefix>> \o text, <<>>, <<>>,
            << Line("TENSORS " \o prefix \o Join(text) \o " float") >>
         \o (IF bin
             THEN << Prims("f32", InFamilyOrder(9, fam, ownBin)) >>
             ELSE InFamilyLines(fam, ownAscii, ZeroRows))
         \o << Line("") >>)

\* Variant: the moments come before the forces.
tors_suffixes_MomentsFirst == <<"M1", "M2", "M3", "M4", "M5", "M6", "F1", "F2", "F3">>

tors_suffixes == <<"F1", "F2", "F3", "M1", "M2", "M3", "M4", "M5", "M6">>

\* Variant: the three components fill the first row.
Expand3_FirstRow(v, base) ==
    << v[base + 1], v[base + 2], v[base + 3],
       0, 0, 0,
       0, 0, 0 >>

\* [xx, yy, xy] at base (0-based) as the 9 values of a 3x3 tensor (binary
\* branch).
Expand3(v, base) ==
    << v[base + 1], v[base + 3], 0,
       v[base + 3], v[base + 2], 0,
       0, 0, 0 >>

\* Variant: the diagonal and the off-diagonal components are exchanged.
Expand6_Exchanged(v, base) ==
    << v[base + 4], v[base + 1], v[base + 2],
       v[base + 1], v[base + 5], v[base + 3],
       v[base + 2], v[base + 3], v[base + 6] >>

\* [xx, yy, zz, xy, xz, yz] at base (0-based) as the 9 values of a 3x3 tensor
\* (binary branch).
Expand6(v, base) ==
    << v[base + 1], v[base + 4], v[base + 5],
       v[base + 4], v[base + 2], v[base + 6],
       v[base + 5], v[base + 6], v[base + 3] >>

FamilyFields(bin) ==
    LET
        \* The same tensor as the three lines of the ASCII branch.
        Expand6Ascii(v, base) ==
            << Nums(<<v[base + 1], v[base + 4], v[base + 5]>>),
               Nums(<<v[base + 4], v[base + 2], v[base + 6]>>),
               Nums(<<v[base + 5], v[base + 6], v[base + 3]>>) >>
        TensorSPH(bin7, ietens) ==
            TensorField(bin7, "SPHELEM_", replace_underscore(dec.tens_text_sph[ietens + 1]), "sph",
                Flatten([iel \in 1..dec.nb_elts_sph |->
                    Expand6(dec.tens_val_sph, (iel - 1) * 6 + ietens * 6 * dec.nb_elts_sph)]),
                Flatten([iel \in 1..dec.nb_elts_sph |->
                    Expand6Ascii(dec.tens_val_sph, (iel - 1) * 6 + ietens * 6 * dec.nb_elts_sph)]))
        ScalarSPH(bin6, iefun) ==
            ScalarField(bin6, "SPHELEM_", replace_underscore(dec.scal_text_sph[iefun + 1]), "sph",
                [iel \in 1..dec.nb_elts_sph |-> dec.efunc_sph[iefun * dec.nb_elts_sph + iel]])
        Tensor3D(bin5, ietens) ==
            TensorField(bin5, "3DELEM_", replace_underscore(dec.t_text_3d[ietens + 1]), "3d",
                Flatten([iel \in 1..dec.nb_elts_3d |->
                    Expand6(dec.tens_val_3d, (iel - 1) * 6 + ietens * 6 * dec.nb_elts_3d)]),
                Flatten([iel \in 1..dec.nb_elts_3d |->
                    Expand6Ascii(dec.tens_val_3d, (iel - 1) * 6 + ietens * 6 * dec.nb_elts_3d)]))
        Scalar3D(bin4, iefun) ==
            ScalarField(bin4, "3DELEM_", replace_underscore(dec.f_text_3d[iefun + 1]), "3d",
                [iel \in 1..dec.nb_elts_3d |-> dec.efunc_3d[iefun * dec.nb_elts_3d + iel]])
        Tensor2D(bin3, ietens) ==
            LET
                \* The same tensor as the three lines of the ASCII branch.
                Expand3Ascii(v, base) ==
                    << NumsSp(<<v[base + 1], v[base + 3], 0>>),
                       NumsSp(<<v[base + 3], v[base + 2], 0>>),
                       NumsSp(<<0, 0, 0>>) >>
            IN
            TensorField(bin3, "2DELEM_", replace_underscore(dec.t_text_a[ietens + 1]), "2d",
                Flatten([iel \in 1..dec.nb_facets |->
                    Expand3(dec.tens_val_a, (iel - 1) * 3 + ietens * 3 * dec.nb_facets)]),
                Flatten([iel \in 1..dec.nb_facets |->
                    Expand3Ascii(dec.tens_val_a, (iel - 1) * 3 + ietens * 3 * dec.nb_facets)]))
        Scalar2D(bin2, iefun) ==
            ScalarField(bin2, "2DELEM_",
                replace_underscore(dec.f_text_a[iefun + dec.nb_func + 1]), "2d",
                [iel \in 1..dec.nb_facets |-> dec.efunc_a[iefun * dec.nb_facets + iel]])
        Torsor1D(bin1, iefun, j) ==
            ScalarField(bin1, "1DELEM_",
                replace_underscore(dec.t_text_1d[iefun + 1]) \o <<tors_suffixes[j + 1]>>, "1d",
                [iel \in 1..dec.nb_elts_1d |->
                    dec.tors_val_1d[9 * iefun * dec.nb_elts_1d + (iel - 1) * 9 + j + 1]])
        Scalar1D(bin0, iefun) ==
            ScalarField(bin0, "1DELEM_", replace_underscore(dec.f_text_1d[iefun + 1]), "1d",
                [iel \in 1..dec.nb_elts_1d |-> dec.efunc_1d[iefun * dec.nb_elts_1d + iel]])
    IN
       [k \in 1..dec.nb_efunc_1d |-> Scalar1D(bin, k - 1)]
    \o Flatten([k \in 1..dec.nb_tors_1d |-> [j \in 1..9 |-> Torsor1D(bin, k - 1, j - 1)]])
    \o [k \in 1..dec.nb_efunc |-> Scalar2D(bin, k - 1)]
    \o [k \in 1..dec.nb_tens |-> Tensor2D(bin, k - 1)]
    \o [k \in 1..dec.nb_efunc_3d |-> Scalar3D(bin, k - 1)]
    \o [k \in 1..dec.nb_tens_3d |-> Tensor3D(bin, k - 1)]
    \o (IF dec.flag_a[8] # 0
        THEN    [k \in 1..dec.nb_efunc_sph |-> ScalarSPH(bin, k - 1)]
             \o [k \in 1..dec.nb_tens_sph |-> TensorSPH(bin, k - 1)]
        ELSE <<>>)

WriteFamilyFields ==
    Emit("write_family_fields", "finish", FamilyFields(binary_format))

\* read_radioss_anim returns: the BufWriter is dropped and flushed.
Finish ==
    /\ pc = "finish"
    /\ pc' = "done"
    /\ retained' = out
    /\ UNCHANGED <<caller, frame, inLen, inPos, binary_format, dec, out, cur, abortAt, stderr>>

-----------------------------------------------------------------------------
(* A second conversion of the same input file with the other setting of    *)
(* --binary: main computes binary_format from the arguments and calls      *)
(* read_radioss_anim again.  The output file of the first conversion is    *)
(* kept aside.                                                              *)

NoParse == <<>>

\* main: "{}.vtk" is appended to a name that does not end with ".vtk"; a
\* name that ends with it is the name of the output file as it is.
output_file_name(name) ==
    IF Len(name) >= 4 /\ SubSeq(name, Len(name) - 3, Len(name)) = ".vtk"
    THEN name
    ELSE name \o ".vtk"

ProgressLine(name) == "Converting " \o name \o " to " \o output_file_name(name)

Rerun ==
    /\ pc \in {"done", "aborted"}
    /\ ~saved.written
    /\ saved' = [written |-> TRUE, binary |-> binary_format, sections |-> retained]
    /\ binary_format' = ~binary_format
    /\ pc' = "open"
    /\ stderr' = << ProgressLine(input.file_name) >>
    /\ inPos' = 0
    /\ dec' = InitDec
    /\ out' = <<>>
    /\ cur' = InitCur
    /\ retained' = <<>>
    /\ abortAt' = "none"
    /\ UNCHANGED <<input, frame, inLen, parsed, rt, batch, report>>

-----------------------------------------------------------------------------
(* The bytes of an output file.  Text is ASCII; the write_*_binary helpers  *)
(* write to_be_bytes of the value.  The values the frames hold are          *)
(* integers, as i32 or as integral f32.                                     *)

\* The bytes of a text the writer prints; the characters are listed by
\* runs of consecutive codes.
Codes(s) ==
    LET runs == << [first |-> 32, chars |-> " "], [first |-> 35, chars |-> "#"],
                   [first |-> 43, chars |-> "+"], [first |-> 45, chars |-> "-."],
                   [first |-> 48, chars |-> "0123456789"],
                   [first |-> 65, chars |-> "ABCDEFGHIJKLMNOPQRSTUVWXYZ"],
                   [first |-> 95, chars |-> "_"],
                   [first |-> 97, chars |-> "abcdefghijklmnopqrstuvwxyz"] >>
        At(r, c) == {i \in 1..Len(runs[r].chars) : SubSeq(runs[r].chars, i, i) = c}
        Code(c) ==
            LET r == CHOOSE k \in 1..Len(runs) : At(k, c) # {}
            IN  runs[r].first + (CHOOSE i \in At(r, c) : TRUE) - 1
    IN  [i \in 1..Len(s) |-> Code(SubSeq(s, i, i))]

NL == 10

Pow2(k) == 2 ^ k

\* i32::to_be_bytes
BE32(n) ==
    LET m == IF n >= 0 THEN n ELSE -(n + 1)
        b == << m \div Pow2(24), (m \div Pow2(16)) % 256, (m \div 256) % 256, m % 256 >>
    IN  IF n >= 0 THEN b ELSE [i \in 1..4 |-> 255 - b[i]]

\* i32::from_be_bytes
FromBE32(b) ==
    (IF b[1] >= 128 THEN b[1] - 256 ELSE b[1]) * Pow2(24)
        + b[2] * Pow2(16) + b[3] * 256 + b[4]

\* floor(log2(n)) for n >= 1
RECURSIVE Log2(_)
Log2(n) == IF n < 2 THEN 0 ELSE 1 + Log2(n \div 2)

Abs(n) == IF n < 0 THEN -n ELSE n

\* f32::to_be_bytes of an integer below 2^24: sign, biased exponent, the 23
\* bits after the leading one.
F32Bytes(n) ==
    IF n = 0 THEN <<0, 0, 0, 0>>
    ELSE LET e == Log2(Abs(n))
             ex == 127 + e
             mant == (Abs(n) - Pow2(e)) * Pow2(23 - e)
         IN  << (IF n < 0 THEN 128 ELSE 0) + ex \div 2,
                (ex % 2) * 128 + mant \div Pow2(16),
                (mant \div 256) % 256,
                mant % 256 >>

\* f64::to_be_bytes of an integer below 2^20: 11 bits of exponent, then the
\* bits after the leading one; the low 32 bits of the mantissa are zero.
F64Bytes(n) ==
    IF n = 0 THEN <<0, 0, 0, 0, 0, 0, 0, 0>>
    ELSE LET e == Log2(Abs(n))
             ex == 1023 + e
             top == (Abs(n) - Pow2(e)) * Pow2(20 - e)
         IN  << (IF n < 0 THEN 128 ELSE 0) + ex \div 16,
                (ex % 16) * 16 + top \div Pow2(16),
                (top \div 256) % 256,
                top % 256,
                0, 0, 0, 0 >>

\* "{} {} {}": the Display of the values, separated by one space.  The
\* Display of an i32, and of an f32 that holds an integer, is its decimal
\* digits.
RECURSIVE Spaced(_)
Spaced(v) ==
    IF v = <<>> THEN ""
    ELSE IF Len(v) = 1 THEN ToString(v[1])
    ELSE ToString(v[1]) \o " " \o Spaced(Tail(v))

\* The bytes one write call produces.
ChunkBytes(c) ==
    LET \* n values of w bytes each, the k-th one being word(k)
        Words(n, w, word(_)) ==
            [p \in 1..(n * w) |-> word((p - 1) \div w + 1)[((p - 1) % w) + 1]]
    IN  CASE c.t = "line" -> Codes(c.s) \o <<NL>>
          [] c.t = "nums" -> Codes(Spaced(c.v) \o c.s) \o <<NL>>
          [] c.t = "i32"  -> Words(Len(c.v), 4, LAMBDA k : BE32(c.v[k]))
          [] c.t = "f32"  -> Words(Len(c.v), 4, LAMBDA k : F32Bytes(c.v[k]))
          [] c.t = "f64"  -> Words(Len(c.v), 8, LAMBDA k : F64Bytes(c.v[k]))

\* The content of the output file: what the write calls produced, in order.
FileBytes(sections) ==
    Flatten([i \in 1..Len(sections) |->
        Flatten([k \in 1..Len(sections[i].chunks) |-> ChunkBytes(sections[i].chunks[k])])])

-----------------------------------------------------------------------------
(* Text handling of the Rust standard library, on bytes.  A decoded        *)
(* character is the sequence of its UTF-8 bytes.                            *)

SetMax(S) == CHOOSE x \in S : \A y \in S : y <= x

Min(a, b) == IF a < b THEN a ELSE b

\* The elements of a set of numbers in ascending order.
Ascending(S) ==
    [k \in 1..Cardinality(S) |-> CHOOSE p \in S : Cardinality({q \in S : q <= p}) = k] \o <<>>

\* s[a] + .. + s[b]
RECURSIVE SumRange(_, _, _)
SumRange(s, a, b) ==
    IF a > b THEN 0
    ELSE IF a = b THEN s[a]
    ELSE SumRange(s, a, (a + b) \div 2) + SumRange(s, (a + b) \div 2 + 1, b)

\* The UTF-8 scan at position i: how many bytes it takes, and whether they
\* are one well-formed character.  An ill-formed sequence stops at the first
\* byte that cannot continue it.
Utf8At(b, i) ==
    LET Get(k) == IF k <= Len(b) THEN b[k] ELSE 0
        IsCont(k) == Get(k) >= 128 /\ Get(k) <= 191
        x == b[i]
        y == Get(i + 1)
        secondOk3 ==
            \/ x = 224 /\ y >= 160 /\ y <= 191
            \/ x >= 225 /\ x <= 236 /\ IsCont(i + 1)
            \/ x = 237 /\ y >= 128 /\ y <= 159
            \/ x >= 238 /\ x <= 239 /\ IsCont(i + 1)
        secondOk4 ==
            \/ x = 240 /\ y >= 144 /\ y <= 191
            \/ x >= 241 /\ x <= 243 /\ IsCont(i + 1)
            \/ x = 244 /\ y >= 128 /\ y <= 143
    IN  IF x < 128 THEN [len |-> 1, ok |-> TRUE]
        ELSE IF x >= 194 /\ x <= 223
        THEN IF IsCont(i + 1) THEN [len |-> 2, ok |-> TRUE] ELSE [len |-> 1, ok |-> FALSE]
        ELSE IF x >= 224 /\ x <= 239
        THEN IF ~secondOk3 THEN [len |-> 1, ok |-> FALSE]
             ELSE IF ~IsCont(i + 2) THEN [len |-> 2, ok |-> FALSE]
             ELSE [len |-> 3, ok |-> TRUE]
        ELSE IF x >= 240 /\ x <= 244
        THEN IF ~secondOk4 THEN [len |-> 1, ok |-> FALSE]
             ELSE IF ~IsCont(i + 2) THEN [len |-> 2, ok |-> FALSE]
             ELSE IF ~IsCont(i + 3) THEN [len |-> 3, ok |-> FALSE]
             ELSE [len |-> 4, ok |-> TRUE]
        ELSE [len |-> 1, ok |-> FALSE]

\* The positions at which the scan stands inside the run of bytes >= 128
\* that begins at i.
RECURSIVE ScanRun(_, _, _)
ScanRun(b, i, acc) ==
    IF i > Len(b) \/ b[i] < 128 THEN acc
    ELSE ScanRun(b, i + Utf8At(b, i).len, acc \cup {i})

\* The positions at which the scan of b stands: a byte below 128 is never
\* taken as the continuation of a sequence, so the scan stands at every one
\* of them and starts afresh at the byte that follows.
ScanStarts(b) ==
    {i \in 1..Len(b) : b[i] < 128}
    \cup UNION {ScanRun(b, i, {}) :
                  i \in {j \in 1..Len(b) : b[j] >= 128 /\ (j = 1 \/ b[j - 1] < 128)}}

\* std::str::from_utf8(..).is_ok()
ValidUtf8(b) == \A i \in ScanStarts(b) : Utf8At(b, i).ok

\* String::from_utf8_lossy: the characters of the text, every ill-formed
\* sequence replaced by U+FFFD.
from_utf8_lossy(b) ==
    LET Replacement == <<239, 191, 189>>
        Char(p, c) == IF c.ok THEN SubSeq(b, p, p + c.len - 1) ELSE Replacement
        Decoded(at) == [k \in 1..Len(at) |-> Char(at[k], Utf8At(b, at[k]))] \o <<>>
    IN  Decoded(Ascending(ScanStarts(b)))

\* char::is_whitespace
WhiteChars ==
    { <<9>>, <<10>>, <<11>>, <<12>>, <<13>>, <<32>>, <<194, 133>>, <<194, 160>>,
      <<225, 154, 128>>, <<226, 128, 168>>, <<226, 128, 169>>, <<226, 128, 175>>,
      <<226, 129, 159>>, <<227, 128, 128>> }
    \cup { <<226, 128, k>> : k \in 128..138 }

\* str::trim
TrimText(text) ==
    LET Between(keep) == IF keep = {} THEN <<>> ELSE SubSeq(text, SetMin(keep), SetMax(keep))
    IN  Between({i \in 1..Len(text) : text[i] \notin WhiteChars})

\* The characters of an ASCII literal.
Chars(s) == [i \in 1..Len(s) |-> <<Codes(SubSeq(s, i, i))[1]>>]

\* str::starts_with
StartsWith(text, s) == Len(text) >= Len(s) /\ SubSeq(text, 1, Len(s)) = Chars(s)

\* str::split_whitespace: the maximal runs of characters that are not
\* whitespace.
split_whitespace(text) ==
    LET IsWord(i) == i >= 1 /\ i <= Len(text) /\ text[i] \notin WhiteChars
        Pieces(firsts, lasts) ==
            [k \in 1..Len(firsts) |-> SubSeq(text, firsts[k], lasts[k])] \o <<>>
    IN  Pieces(Ascending({i \in 1..Len(text) : IsWord(i) /\ ~IsWord(i - 1)}),
               Ascending({i \in 1..Len(text) : IsWord(i) /\ ~IsWord(i + 1)}))

\* The pieces of s between the occurrences of sep: with the separator that
\* ends them (keep = 1) or without it (keep = 0).  What follows the last
\* separator is a piece when it is not empty.
Split(s, sep, keep) ==
    LET Cut(at) ==
            [k \in 1..Len(at) |->
                SubSeq(s, (IF k = 1 THEN 1 ELSE at[k - 1] + 1), at[k] - 1 + keep)]
            \o (IF at = <<>> THEN (IF s = <<>> THEN <<>> ELSE <<s>>)
                ELSE IF at[Len(at)] < Len(s) THEN << SubSeq(s, at[Len(at)] + 1, Len(s)) >>
                ELSE <<>>)
    IN  Cut(Ascending({i \in 1..Len(s) : s[i] = sep}))

\* BufRead::read_line, called until the end of the file: every line with
\* its terminator.
ReadLines(b) == Split(b, NL, 1)

\* from_utf8_lossy(b).lines(): a line ends at "\n" or "\r\n", the terminator
\* is not part of it, and a last line needs no terminator.  A line feed is a
\* byte below 128, which the scan never takes into a sequence: decoding the
\* text and cutting it at its line feeds is cutting b at its line feeds and
\* decoding the pieces.
LossyLines(b) ==
    LET StripCR(line) ==
            IF line # <<>> /\ line[Len(line)] = <<13>>
            THEN SubSeq(line, 1, Len(line) - 1) ELSE line
        Lines(raw) ==
            [k \in 1..Len(raw) |->
                IF k < Len(raw) \/ b[Len(b)] = NL
                THEN StripCR(from_utf8_lossy(raw[k]))
                ELSE from_utf8_lossy(raw[k])] \o <<>>
    IN  Lines(Split(b, NL, 0))

\* The digit loop of from_str for an integer type, from character i on: an
\* error on any other character and on overflow.
RECURSIVE DigitsValue(_, _, _, _)
DigitsValue(word, i, acc, neg) ==
    IF i > Len(word) THEN [ok |-> TRUE, val |-> acc]
    ELSE IF ~(Len(word[i]) = 1 /\ word[i][1] >= 48 /\ word[i][1] <= 57)
    THEN [ok |-> FALSE, val |-> 0]
    ELSE LET d == word[i][1] - 48
         IN  IF neg
             THEN IF acc < -(I32_MAX \div 10) \/ acc * 10 < (-I32_MAX - 1) + d
                  THEN [ok |-> FALSE, val |-> 0]
                  ELSE DigitsValue(word, i + 1, acc * 10 - d, neg)
             ELSE IF acc > I32_MAX \div 10 \/ acc * 10 > I32_MAX - d
                  THEN [ok |-> FALSE, val |-> 0]
                  ELSE DigitsValue(word, i + 1, acc * 10 + d, neg)

\* str::parse::<usize>: an optional "+", then digits.  Values are kept below
\* 2^31.
ParseUsize(word) ==
    IF word = <<>> THEN [ok |-> FALSE, val |-> 0]
    ELSE IF word[1] = <<43>>
         THEN (IF Len(word) = 1 THEN [ok |-> FALSE, val |-> 0]
               ELSE DigitsValue(word, 2, 0, FALSE))
         ELSE DigitsValue(word, 1, 0, FALSE)

\* str::parse::<i32>: an optional sign, then digits.
ParseInt(word) ==
    IF word = <<>> THEN [ok |-> FALSE, val |-> 0]
    ELSE IF word[1] \in {<<43>>, <<45>>}
         THEN (IF Len(word) = 1 THEN [ok |-> FALSE, val |-> 0]
               ELSE DigitsValue(word, 2, 0, word[1] = <<45>>))
         ELSE DigitsValue(word, 1, 0, FALSE)

\* str::parse::<f32> of a token made of a sign and digits, below 2^24: the
\* f32 of that integer, as its four bytes.
ParseFloat(word) ==
    LET FloatOf(r) ==
            IF r.ok /\ Abs(r.val) < Pow2(24)
            THEN [ok |-> TRUE, val |-> F32Bytes(r.val)]
            ELSE [ok |-> FALSE, val |-> <<>>]
    IN  FloatOf(ParseInt(word))

-----------------------------------------------------------------------------
(* compare_vtk: read_vtk_file and the readers it calls.  An f32 is kept as *)
(* its four bytes, a name as its characters.  A reader returns st = "ok"   *)
(* with the data, st = "err" for Err(..), st = "panic" for a slice taken   *)
(* past the end of the buffer, st = "hang" when it reads the end of the    *)
(* file for ever.  The readers work on T, what read_line and trim() make   *)
(* of every line: ok is FALSE when read_line returns Err (the line is not  *)
(* UTF-8).                                                                  *)

\* VtkData::new()
NewVtkData ==
    [points |-> <<>>, cells |-> <<>>, cell_types |-> <<>>, point_scalars |-> <<>>,
     point_vectors |-> <<>>, cell_scalars |-> <<>>, cell_scalars_float |-> <<>>]

Ok(d, next) == [st |-> "ok", data |-> d, next |-> next]

Stop(st) == [st |-> st, data |-> NewVtkData, next |-> 0]

\* Every line of the file as read_line returns it.
ReadLineAll(L) ==
    LET LineRead(b, text) == [ok |-> ValidUtf8(b), text |-> text, trimmed |-> TrimText(text)]
    IN  [k \in 1..Len(L) |-> LineRead(L[k], from_utf8_lossy(L[k]))] \o <<>>

\* The first line from i on at which a reading loop does something: a line
\* that read_line rejects, or a line that starts with one of the keywords of
\* the loop.  Every other line is read and passed over.  Len(T) + 1 at the
\* end of the file.
NextStop(T, i, keys) ==
    SetMin({j \in i..Len(T) : ~T[j].ok \/ \E key \in keys : StartsWith(T[j].trimmed, key)}
           \cup {Len(T) + 1})

\* The tokens of a line parsed as f32 or i32 and pushed, from token k on,
\* until count values are held.
RECURSIVE PushTokens(_, _, _, _, _)
PushTokens(words, k, count, acc, type) ==
    LET Push(p) ==
            IF ~p.ok THEN [ok |-> FALSE, vals |-> acc]
            ELSE PushTokens(words, k + 1, count, Append(acc, p.val), type)
    IN  IF k > Len(words) \/ Len(acc) >= count THEN [ok |-> TRUE, vals |-> acc]
        ELSE IF type = "f32" THEN Push(ParseFloat(words[k]))
        ELSE Push(ParseInt(words[k]))

\* read_float_values / read_int_values from line i on: lines are read until
\* count values are held.  At the end of the file read_line returns Ok(0)
\* and the loop goes on.
RECURSIVE ReadValues(_, _, _, _, _)
ReadValues(T, i, count, acc, type) ==
    LET Pushed(r) ==
            IF ~r.ok THEN [st |-> "err", vals |-> acc, next |-> i]
            ELSE ReadValues(T, i + 1, count, r.vals, type)
    IN  IF Len(acc) >= count THEN [st |-> "ok", vals |-> acc, next |-> i]
        ELSE IF i > Len(T) THEN [st |-> "hang", vals |-> acc, next |-> i]
        ELSE IF ~T[i].ok THEN [st |-> "err", vals |-> acc, next |-> i]
        ELSE Pushed(PushTokens(split_whitespace(T[i].text), 1, count, acc, type))

read_float_values(T, i, count) == ReadValues(T, i, count, <<>>, "f32")

read_int_values(T, i, count) == ReadValues(T, i, count, <<>>, "i32")

\* read_cell_data from line i on, to the end of the file.
RECURSIVE read_cell_data(_, _, _)
read_cell_data(T, i, d) ==
    LET \* the values read are pushed with the name and the loop goes on
        Field(into, name, r) ==
            IF r.st # "ok" THEN Stop(r.st)
            ELSE read_cell_data(T, r.next, [d EXCEPT ![into] = Append(@, <<name, r.vals>>)])
        \* a SCALARS line, line j; the LOOKUP_TABLE line is line j + 1
        Scalars(j, parts) ==
            IF Len(parts) < 3 THEN read_cell_data(T, j + 1, d)
            ELSE IF j + 1 <= Len(T) /\ ~T[j + 1].ok THEN Stop("err")
            ELSE IF parts[3] = Chars("int")
            THEN Field("cell_scalars", parts[2],
                       read_int_values(T, j + 2, Len(d.cell_types)))
            ELSE Field("cell_scalars_float", parts[2],
                       read_float_values(T, j + 2, Len(d.cell_types)))
        At(j) ==
            IF j > Len(T) THEN Ok(d, j)
            ELSE IF ~T[j].ok THEN Stop("err")
            ELSE Scalars(j, split_whitespace(T[j].trimmed))
    IN  At(NextStop(T, i, {"SCALARS"}))

\* read_point_data from line i on: to the end of the file, or to CELL_DATA
\* and then through read_cell_data.
RECURSIVE read_point_data(_, _, _)
read_point_data(T, i, d) ==
    LET Field(into, name, r) ==
            IF r.st # "ok" THEN Stop(r.st)
            ELSE read_point_data(T, r.next, [d EXCEPT ![into] = Append(@, <<name, r.vals>>)])
        \* a SCALARS or VECTORS line, line j; the LOOKUP_TABLE line of
        \* SCALARS is line j + 1
        Named(j, scalars, parts) ==
            IF Len(parts) < 2 THEN read_point_data(T, j + 1, d)
            ELSE IF scalars /\ j + 1 <= Len(T) /\ ~T[j + 1].ok THEN Stop("err")
            ELSE Field((IF scalars THEN "point_scalars" ELSE "point_vectors"), parts[2],
                       read_float_values(T, (IF scalars THEN j + 2 ELSE j + 1),
                                         (IF scalars THEN Len(d.points) \div 3
                                          ELSE (Len(d.points) \div 3) * 3)))
        At(j) ==
            IF j > Len(T) THEN Ok(d, j)
            ELSE IF ~T[j].ok THEN Stop("err")
            ELSE IF StartsWith(T[j].trimmed, "CELL_DATA") THEN read_cell_data(T, j + 1, d)
            ELSE Named(j, StartsWith(T[j].trimmed, "SCALARS"), split_whitespace(T[j].trimmed))
    IN  At(NextStop(T, i, {"CELL_DATA", "SCALARS", "VECTORS"}))

\* parts[2], parts[3], .. parsed as usize.
Counts(parts) == [k \in 1..(Len(parts) - 1) |-> ParseUsize(parts[k + 1])] \o <<>>

\* The loop of read_ascii_vtk from line i on.
RECURSIVE AsciiLoop(_, _, _)
AsciiLoop(T, i, d) ==
    LET \* the values read become the field and the loop goes on
        Field(into, r) ==
            IF r.st # "ok" THEN Stop(r.st)
            ELSE AsciiLoop(T, r.next, [d EXCEPT ![into] = r.vals])
        \* after read_point_data or read_cell_data (at the end of the file)
        After(r) == IF r.st # "ok" THEN r ELSE AsciiLoop(T, r.next, r.data)
        \* a POINTS, CELLS or CELL_TYPES line, line j: need tokens are
        \* required, the numbers in it are parsed, size is the one that gives
        \* the count
        Counted(j, into, need, numbers, size) ==
            IF Len(numbers) < need - 1 THEN AsciiLoop(T, j + 1, d)
            ELSE IF \E k \in 1..(need - 1) : ~numbers[k].ok THEN Stop("err")
            ELSE IF into = "points"
            THEN Field(into, read_float_values(T, j + 1, numbers[size].val * 3))
            ELSE Field(into, read_int_values(T, j + 1, numbers[size].val))
        Keyword(j, trimmed, numbers) ==
            IF StartsWith(trimmed, "POINTS") THEN Counted(j, "points", 2, numbers, 1)
            ELSE IF StartsWith(trimmed, "CELLS") THEN Counted(j, "cells", 3, numbers, 2)
            ELSE IF StartsWith(trimmed, "CELL_TYPES")
            THEN Counted(j, "cell_types", 2, numbers, 1)
            ELSE IF StartsWith(trimmed, "POINT_DATA") THEN After(read_point_data(T, j + 1, d))
            ELSE After(read_cell_data(T, j + 1, d))
        At(j) ==
            IF j > Len(T) THEN Ok(d, j)
            ELSE IF ~T[j].ok THEN Stop("err")
            ELSE Keyword(j, T[j].trimmed, Counts(split_whitespace(T[j].trimmed)))
    IN  At(NextStop(T, i, {"POINTS", "CELLS", "CELL_TYPES", "POINT_DATA", "CELL_DATA"}))

\* L: the lines that follow the three header lines.
read_ascii_vtk(L) == AsciiLoop(ReadLineAll(L), 1, NewVtkData)

\* read_binary_floats: the values that lie whole inside buffer[offset..]
\* (offset 0-based), at most count of them.
read_binary_floats(buffer, offset, count) ==
    [k \in 1..Min((Len(buffer) - offset) \div 4, count) |->
        SubSeq(buffer, offset + 4 * (k - 1) + 1, offset + 4 * k)] \o <<>>

\* read_binary_ints
read_binary_ints(buffer, offset, count) ==
    [k \in 1..Min((Len(buffer) - offset) \div 4, count) |->
        FromBE32(SubSeq(buffer, offset + 4 * (k - 1) + 1, offset + 4 * k))] \o <<>>

\* The while loop of read_binary_vtk: ls the trimmed lines of the lossy
\* text, adds[k] what line k adds to binary_offset as a line of text, i the
\* next line (1-based), offset the value of binary_offset.
RECURSIVE BinaryLoop(_, _, _, _, _, _)
BinaryLoop(buffer, ls, adds, i, offset, d) ==
    LET \* a POINTS, CELLS or CELL_TYPES line, line j, with binary_offset = at
        \* before it: the payload is taken from buffer[at + line.len() + 1 ..]
        Counted(j, at, into, need, numbers, size) ==
            IF Len(numbers) < need - 1 THEN BinaryLoop(buffer, ls, adds, j + 1, at, d)
            ELSE IF \E k \in 1..(need - 1) : ~numbers[k].ok THEN Stop("err")
            ELSE IF at + adds[j] > Len(buffer) THEN Stop("panic")
            ELSE IF into = "points"
            THEN BinaryLoop(buffer, ls, adds, j + 1, at + adds[j] + numbers[size].val * 3 * 4,
                     [d EXCEPT !.points =
                         read_binary_floats(buffer, at + adds[j], numbers[size].val * 3)])
            ELSE BinaryLoop(buffer, ls, adds, j + 1, at + adds[j] + numbers[size].val * 4,
                     [d EXCEPT ![into] =
                         read_binary_ints(buffer, at + adds[j], numbers[size].val)])
        Keyword(j, at, numbers) ==
            IF StartsWith(ls[j], "POINTS") THEN Counted(j, at, "points", 2, numbers, 1)
            ELSE IF StartsWith(ls[j], "CELLS") THEN Counted(j, at, "cells", 3, numbers, 2)
            ELSE Counted(j, at, "cell_types", 2, numbers, 1)
        \* between two lines that start with POINTS, CELLS or CELL_TYPES
        \* every line that is not empty adds its length and 1
        At(j) ==
            IF j > Len(ls) THEN Ok(d, j)
            ELSE Keyword(j, offset + SumRange(adds, i, j - 1), Counts(split_whitespace(ls[j])))
    IN  At(SetMin({k \in i..Len(ls) : \E key \in {"POINTS", "CELLS", "CELL_TYPES"} :
                                          StartsWith(ls[k], key)}
                  \cup {Len(ls) + 1}))

\* buffer: the bytes that follow the three header lines.
read_binary_vtk(buffer) ==
    LET \* str::len: the length in bytes
        ByteLen(text) == SumRange([k \in 1..Len(text) |-> Len(text[k])] \o <<>>, 1, Len(text))
        \* what the lines before line i add: lines[j].len() + 1
        Before(lines, i) ==
            SumRange([k \in 1..Len(lines) |-> ByteLen(lines[k]) + 1] \o <<>>, 1, i - 1)
        \* what a trimmed line adds in the while loop: nothing when empty
        Adds(ls) == [k \in 1..Len(ls) |-> IF ls[k] = <<>> THEN 0 ELSE ByteLen(ls[k]) + 1] \o <<>>
        \* the loop is entered at the first line that starts with POINTS, or
        \* at the first line when there is none (i = 0)
        From(lines, ls, i) ==
            BinaryLoop(buffer, ls, Adds(ls), (IF i = 0 THEN 1 ELSE i), Before(lines, i),
                       NewVtkData)
        Find(lines, ls) ==
            From(lines, ls,
                 SetMin({k \in 1..Len(ls) : StartsWith(ls[k], "POINTS")} \cup {Len(ls) + 1})
                     % (Len(ls) + 1))
        Trimmed(lines) == Find(lines, [k \in 1..Len(lines) |-> TrimText(lines[k])] \o <<>>)
    IN  Trimmed(LossyLines(buffer))

\* read_vtk_file on a file of the given content: the first three lines are
\* read, the format line decides.
read_vtk_file(bytes) ==
    LET Body(L, past) ==
            IF \E k \in 1..3 : k <= Len(L) /\ ~ValidUtf8(L[k]) THEN Stop("err")
            ELSE IF L = <<>> \/ ~StartsWith(from_utf8_lossy(L[1]), "# vtk DataFile")
            THEN Stop("err")
            ELSE IF Len(L) >= 3 /\ TrimText(from_utf8_lossy(L[3])) = Chars("BINARY")
            THEN read_binary_vtk(SubSeq(bytes, past + 1, Len(bytes)))
            ELSE read_ascii_vtk(SubSeq(L, 4, Len(L)))
        Header(L) ==
            Body(L, SumRange([k \in 1..Len(L) |-> Len(L[k])] \o <<>>, 1, Min(3, Len(L))))
    IN  Header(ReadLines(bytes))

\* f32::INFINITY: above every difference of two values of the frames, which
\* are below 2^24.
INFINITY == Pow2(30)

NoReport == [st |-> "none", stdout |-> <<>>]

\* compare_float_arrays: the line it prints and the value it returns.  An
\* f32 of the frames is an integer: the value of its four bytes is the
\* leading one and the 23 bits after it, shifted by the exponent.
compare_float_arrays(arr1, arr2, label, name) ==
    LET Value(b) ==
            LET ex == (b[1] % 128) * 2 + b[2] \div 128
                mant == (b[2] % 128) * Pow2(16) + b[3] * 256 + b[4]
                magnitude == IF ex = 0 THEN 0 ELSE (Pow2(23) + mant) \div Pow2(150 - ex)
            IN  IF b[1] >= 128 THEN -magnitude ELSE magnitude
        diff == [i \in 1..Len(arr1) |-> Abs(Value(arr1[i]) - Value(arr2[i]))] \o <<>>
        Found(max_diff) ==
            [max |-> max_diff,
             line |-> [kind |-> "diff", label |-> label, name |-> name, max |-> max_diff,
                       at |-> IF max_diff = 0 THEN 0
                              ELSE SetMin({i \in 1..Len(diff) : diff[i] = max_diff}) - 1]]
    IN  IF Len(arr1) # Len(arr2)
        THEN [max |-> INFINITY,
              line |-> [kind |-> "sizes", label |-> label, name |-> name,
                        a |-> Len(arr1), b |-> Len(arr2)]]
        ELSE Found(SetMax({diff[i] : i \in 1..Len(diff)} \cup {0}))

\* compare_vtk_files once both files are read: the counts, then a line for
\* the points and for every point scalar, point vector and float cell scalar
\* of the first file, then the summary.
compare_vtk_files(r1, r2) ==
    LET data1 == r1.data
        data2 == r2.data
        Count(label, a, b) == [kind |-> "count", label |-> label, a |-> a, b |-> b]
        Dimensions ==
            << Count("Number of points", Len(data1.points) \div 3, Len(data2.points) \div 3),
               Count("Number of cells", Len(data1.cell_types), Len(data2.cell_types)),
               Count("Number of point scalars", Len(data1.point_scalars),
                     Len(data2.point_scalars)),
               Count("Number of point vectors", Len(data1.point_vectors),
                     Len(data2.point_vectors)),
               Count("Number of cell scalars (int)", Len(data1.cell_scalars),
                     Len(data2.cell_scalars)),
               Count("Number of cell scalars (float)", Len(data1.cell_scalars_float),
                     Len(data2.cell_scalars_float)) >>
        \* the fields of one list of the first file, each looked up by its
        \* name in the same list of the second file
        Fields(list, label) ==
            LET Others(name) == {j \in 1..Len(data2[list]) : data2[list][j][1] = name}
                One(f) ==
                    IF Others(f[1]) = {}
                    THEN [max |-> 0, line |-> [kind |-> "warning", label |-> label,
                                               name |-> f[1]]]
                    ELSE compare_float_arrays(f[2], data2[list][SetMin(Others(f[1]))][2],
                                              label, f[1])
            IN  [k \in 1..Len(data1[list]) |-> One(data1[list][k])] \o <<>>
        Compared ==
            << compare_float_arrays(data1.points, data2.points, "Points (coordinates)", <<>>) >>
            \o Fields("point_scalars", "Point scalar")
            \o Fields("point_vectors", "Point vector")
            \o Fields("cell_scalars_float", "Cell scalar (float)")
        Summary(max_diff_overall) ==
            [kind |-> "summary", max |-> max_diff_overall,
             verdict |-> IF max_diff_overall = 0 THEN "essentially identical"
                         ELSE "noticeable differences"]
        Done(c) ==
            [st |-> "ok",
             stdout |-> Dimensions \o [k \in 1..Len(c) |-> c[k].line]
                        \o << Summary(SetMax({c[k].max : k \in 1..Len(c)})) >>]
    IN  IF r1.st # "ok" THEN [st |-> r1.st, stdout |-> <<>>]
        ELSE IF r2.st # "ok" THEN [st |-> r2.st, stdout |-> <<>>]
        ELSE IF Len(data1.points) # Len(data2.points)
                \/ Len(data1.cell_types) # Len(data2.cell_types)
        THEN [st |-> "err", stdout |-> Dimensions]
        ELSE Done(Compared)

\* compare_vtk on two output files of the input: the files of the two
\* conversions, or twice the same file.  parsed holds what read_vtk_file
\* returned for each, report what was printed.
CompareVtkFiles ==
    LET Outcome(r) == [st |-> r.st, data |-> r.data]
        Read(file) == Outcome(read_vtk_file(FileBytes(file)))
        Compare(r1, r2) ==
            /\ parsed' = <<r1, r2>>
            /\ report' = compare_vtk_files(r1, r2)
    IN  /\ pc \in {"done", "aborted"}
        /\ saved.written
        /\ parsed = NoParse
        /\ \E files \in { <<saved.sections, retained>>, <<saved.sections, saved.sections>>,
                          <<retained, retained>> } :
              Compare(Read(files[1]), Read(files[2]))
        /\ UNCHANGED <<pc, frame, inLen, inPos, binary_format, dec, out, cur, retained,
                       abortAt, input, stderr, saved, rt, batch>>

-----------------------------------------------------------------------------
(* read_bytes and read_text of anim_to_vtk on a stream of bytes.  A String *)
(* is the sequence of its UTF-8 bytes.  rt is one call taken alone: bytes  *)
(* the whole stream, pos the position of the file before the call, count   *)
(* the argument, then at the position after it, st how the call ended and  *)
(* text what it returned.                                                  *)

NoCall == [st |-> "none", bytes |-> <<>>, pos |-> 0, count |-> 0, at |-> 0, text |-> <<>>]

\* One conversion taken alone: main is left out.
NoBatch == [st |-> "none", files |-> <<>>, i |-> 0, failed |-> <<>>, successful |-> 0]

\* Variant: one NUL at most is removed.
trim_end_matches_Once(s, c) ==
    IF s # <<>> /\ s[Len(s)] = c THEN SubSeq(s, 1, Len(s) - 1) ELSE s

\* str::trim_end_matches(c) for a one-byte character c.
trim_end_matches(s, c) ==
    SubSeq(s, 1, SetMax({k \in 1..Len(s) : s[k] # c} \cup {0}))

\* std::str::from_utf8(&buf).unwrap_or(""), then trim_end_matches('\0').
read_text(buf) == trim_end_matches((IF ValidUtf8(buf) THEN buf ELSE <<>>), 0)

\* let s = read_text(&mut file, count): read_bytes fills a buffer of count
\* bytes with read_exact, which fails when the stream ends before.
ReadText ==
    /\ rt.st = "call"
    /\ IF rt.pos + rt.count > Len(rt.bytes)
       THEN rt' = [rt EXCEPT !.st = "panic", !.at = Len(rt.bytes)]
       ELSE rt' = [rt EXCEPT !.st = "returned", !.at = rt.pos + rt.count,
                             !.text = read_text(SubSeq(rt.bytes, rt.pos + 1,
                                                       rt.pos + rt.count))]
    /\ UNCHANGED <<pc, frame, inLen, inPos, binary_format, dec, out, cur, retained,
                   abortAt, input, stderr, saved, parsed, batch, report>>

-----------------------------------------------------------------------------
(* Input files and specifications *)

BaseParams ==
    [ magic |-> FASTMAGI10,
      mass |-> 1, num |-> 1, f3d |-> 1, f1d |-> 1, hier |-> 1, th |-> 1, sph |-> 1,
      nn |-> MaxNodes, n2 |-> 1, o2 |-> 1, n3 |-> 1, o3 |-> 1, n1 |-> 1, ns |-> 1,
      nfun |-> MaxNames, skew |-> 1, nsub |-> 1, nth |-> 1,
      pfam |-> "none", pb |-> <<>>, plo |-> 1 ]

\* main calls read_radioss_anim on a file that exists, after creating the
\* output file and printing the progress line.
StartFile(inp, p, len, bin) ==
    LET
        \* Nothing converted before, nothing compared.
        NoFile == [written |-> FALSE, binary |-> FALSE, sections |-> <<>>]
    IN
    /\ pc = "open"
    /\ input = inp
    /\ stderr = << ProgressLine(inp.file_name) >>
    /\ frame = BuildFrame(p)
    /\ inLen = len
    /\ inPos = 0
    /\ binary_format = bin
    /\ dec = InitDec
    /\ out = <<>>
    /\ cur = InitCur
    /\ retained = <<>>
    /\ abortAt = "none"
    /\ saved = NoFile
    /\ parsed = NoParse

Start(p, len, bin) ==
    /\ StartFile([file_name |-> "T01A001", openable |-> TRUE], p, len, bin)
    /\ rt = NoCall
    /\ batch = NoBatch
    /\ report = NoReport

Next ==
    \/ OpenInput
    \/ ReadMagic
    \/ ReadHeader
    \/ Read2DGeometry
    \/ ReadMass2D
    \/ ReadNumbering2D
    \/ ReadHierarchy2D
    \/ Read3DGeometry
    \/ Read1DGeometry
    \/ ReadHierarchy
    \/ ReadTimeHistory
    \/ ReadSPH
    \/ WriteHeader
    \/ WritePoints
    \/ WriteCells
    \/ WriteCellTypes
    \/ WriteNodeId
    \/ WritePointFields
    \/ WriteElementId
    \/ WritePartIdHeader
    \/ ResolvePartId
    \/ EndPartId
    \/ WriteErosion
    \/ WriteFamilyFields
    \/ Finish

(* Complete files whose cells vary: connectivity rows from the pools, every *)
(* family present or absent, with and without external numbering.           *)

Init ==
    LET
        NumberingParams ==
            { [BaseParams EXCEPT !.num = num, !.nn = nn, !.n2 = n, !.n3 = n, !.n1 = n, !.ns = n]
              : num \in {0, 1, 2}, nn \in 0..MaxNodes, n \in {0, 1} }
        CellParams ==
            LET
                \* <<1-D flag, 1-D elements, SPH flag, SPH particles>>
                LineAndSph ==
                    { <<1, n, 1, n>> : n \in 0..Max1D } \cup { <<0, 0, 0, 0>> }
                    \cup { <<1, Max1D, 0, 0>>, <<0, 0, 1, MaxSph>> }
            IN
            { [BaseParams EXCEPT !.n2 = n2, !.o2 = o2, !.n3 = n3, !.o3 = o3,
                                 !.f1d = ls[1], !.n1 = ls[2], !.sph = ls[3], !.ns = ls[4],
                                 !.nfun = 0]
              : n2 \in 1..Max2D, o2 \in 1..Len(FacetPool),
                n3 \in 1..Max3D, o3 \in 1..Len(CellPool), ls \in LineAndSph }
            \cup
            { [BaseParams EXCEPT !.n2 = n2, !.f3d = f3d, !.n3 = 0,
                                 !.f1d = ls[1], !.n1 = ls[2], !.sph = ls[3], !.ns = ls[4]]
              : n2 \in 0..1, f3d \in {0, 1}, ls \in LineAndSph }
    IN
    \E p \in CellParams \cup NumberingParams, bin \in BOOLEAN :
        Start(p, BytesRequested(BuildFrame(p)), bin)

Spec == Init /\ [][Next]_vars

(* Files of every flag combination, complete and truncated inside every    *)
(* section, and files of another revision.                                  *)

InitDecode ==
    LET
        OtherMagic == {FASTMAGI10 - 1, FASTMAGI10 + 1, 0}
        EmptyParams ==
            { [BaseParams EXCEPT !.nn = 0, !.n2 = 0, !.n3 = 0, !.n1 = 0, !.ns = 0,
                                 !.nfun = k, !.skew = 0, !.nsub = 0, !.nth = 0]
              : k \in 0..MaxNames }
        FlagParams ==
            { [BaseParams EXCEPT !.mass = fl[1], !.num = fl[2], !.f3d = fl[3], !.f1d = fl[4],
                                 !.hier = fl[5], !.th = fl[6], !.sph = fl[7]]
              : fl \in {0, 1, 2} \X {0, 1, 2} \X {0, 1} \X {0, 1} \X {0, 1} \X {0, 1} \X {0, 1} }
        \* Lengths of the complete stream of f and of its truncations inside each
        \* section.
        StreamLengths(f) ==
            LET
                \* Lengths of the streams that end inside section k of f.
                CutInside(f0, k) ==
                    LET sz == SectionSizes(f0)
                    IN  IF sz[k] = 0 THEN {} ELSE {SumSeq(SubSeq(sz, 1, k - 1)) + (sz[k] \div 2)}
            IN
            {BytesRequested(f)} \cup UNION {CutInside(f, k) : k \in 1..Len(SectionSizes(f))}
    IN
    \/ \E bin \in BOOLEAN :
          /\ StartFile([file_name |-> "T01A002", openable |-> FALSE], BaseParams,
                       BytesRequested(BuildFrame(BaseParams)), bin)
          /\ rt = NoCall
          /\ batch = NoBatch
          /\ report = NoReport
    \/ \E p \in FlagParams \cup EmptyParams, bin \in BOOLEAN :
          \E len \in StreamLengths(BuildFrame(p)) : Start(p, len, bin)
    \/ \E m \in OtherMagic, bin \in BOOLEAN :
          LET p == [BaseParams EXCEPT !.magic = m]
          IN  \E len \in {2, SizeMagic, SizeMagic + SizeHeader,
                          SumSeq(SectionSizes(BuildFrame(p)))} : Start(p, len, bin)

SpecDecode == InitDecode /\ [][Next]_vars

(* Complete files whose part tables vary in one family: every              *)
(* non-decreasing boundary table, and every label of the pool.              *)

Families == {"1d", "2d", "3d", "sph"}

InitParts ==
    LET
        PartParams ==
            LET
                \* The parameters with n elements in family fam and one element elsewhere.
                WithElements(fam, n) ==
                    [BaseParams EXCEPT !.n1 = IF fam = "1d" THEN n ELSE 1,
                                       !.n2 = IF fam = "2d" THEN n ELSE 1,
                                       !.n3 = IF fam = "3d" THEN n ELSE 1,
                                       !.ns = IF fam = "sph" THEN n ELSE 1,
                                       !.nfun = 0, !.pfam = fam]
                \* Non-decreasing boundary tables of np entries within 0..n.
                Boundaries(np, n) ==
                    {b \in [1..np -> 0..n] : \A k \in 1..(np - 1) : b[k] <= b[k + 1]}
            IN
            UNION { { [WithElements(fam, n) EXCEPT !.pb = b]
                      : b \in UNION {Boundaries(np, n) : np \in 0..MaxParts} }
                    : fam \in Families, n \in 0..MaxPartElts }
            \cup
            { [WithElements(fam, 2) EXCEPT !.pb = b, !.plo = lo]
              : fam \in Families, b \in {<<2>>, <<0>>}, lo \in 1..Len(LabelPool) }
    IN
    \E p \in PartParams, bin \in BOOLEAN :
        Start(p, BytesRequested(BuildFrame(p)), bin)

SpecParts == InitParts /\ [][Next]_vars

(* Complete files whose named fields vary: up to MaxFields fields of every *)
(* kind in every family, over up to MaxFieldElts elements per family.       *)

InitFields ==
    LET
        FieldParams ==
            { [BaseParams EXCEPT !.nfun = k, !.n1 = n1, !.n2 = n2, !.n3 = n3, !.ns = ns]
              : k \in 0..MaxFields, n1 \in 0..MaxFieldElts, n2 \in 0..MaxFieldElts,
                n3 \in 0..MaxFieldElts, ns \in 0..MaxFieldElts }
    IN
    \E p \in FieldParams, bin \in BOOLEAN :
        Start(p, BytesRequested(BuildFrame(p)), bin)

SpecFields == InitFields /\ [][Next]_vars

(* Complete files converted twice, once in each format: with and without *)
(* nodes, cells of every family, tetrahedra and hexahedra, named fields and *)
(* external numbering.                                                      *)

InitCompare ==
    LET
        CompareParams ==
            { [BaseParams EXCEPT !.num = num, !.nn = nn, !.n1 = n, !.ns = n, !.n2 = n2,
                                 !.n3 = n3, !.o3 = o3, !.nfun = k]
              : num \in {0, 1}, nn \in 0..MaxNodes, n \in {0, 1}, n2 \in {0, 1},
                n3 \in {0, 1}, o3 \in {1, 2, 3}, k \in 0..MaxNames }
    IN
    \E p \in CompareParams, bin \in BOOLEAN :
        Start(p, BytesRequested(BuildFrame(p)), bin)

NextCompare ==
    \/ Next
    \/ Rerun

SpecCompare == InitCompare /\ [][NextCompare]_vars

(* Both output files of one input read back by compare_vtk: frames with and *)
(* without nodes, facets, solids, named nodal fields and external           *)
(* numbering.                                                               *)

InitParse ==
    LET
        ParseParams ==
            { [BaseParams EXCEPT !.num = num, !.nn = nn, !.n1 = 0, !.ns = 0, !.n2 = n2,
                                 !.n3 = n3, !.nfun = k]
              : num \in {0, 1}, nn \in 0..MaxNodes, n2 \in {0, 1}, n3 \in {0, 1},
                k \in 0..MaxNames }
    IN
    \E p \in ParseParams, bin \in BOOLEAN :
        Start(p, BytesRequested(BuildFrame(p)), bin)

NextParse ==
    \/ Next
    \/ Rerun
    \/ CompareVtkFiles

SpecParse == InitParse /\ [][NextParse]_vars

(* Calls of read_text taken alone: every stream of up to MaxTextLen bytes  *)
(* among five, read from its first or its second byte, for every count up  *)
(* to MaxTextLen.  The conversion itself stays at its start.               *)

InitText ==
    LET
        \* NUL, 'A', the two bytes of U+00E9, a byte that no UTF-8 text holds.
        TextBytes == {0, 65, 195, 169, 255}
    IN
    /\ StartFile([file_name |-> "T01A001", openable |-> TRUE], BaseParams, 0, FALSE)
    /\ batch = NoBatch
    /\ report = NoReport
    /\ \E n \in 0..MaxTextLen : \E b \in [1..n -> TextBytes] :
          \E pos \in {0, 1} \cap 0..n, count \in 0..MaxTextLen :
              rt = [NoCall EXCEPT !.st = "call", !.bytes = b, !.pos = pos, !.count = count,
                                  !.at = pos]

SpecText == InitText /\ [][ReadText]_vars

(* main: the loop over the input files of the command line.  A file of the *)
(* command line is a record: its name, whether the path exists, whether    *)
(* File::create of the output succeeds, whether File::open of the input    *)
(* succeeds, its magic number and its length in bytes.  batch.i files have *)
(* been taken so far; batch.st is "loop" between two files, "converting"   *)
(* inside read_radioss_anim, "returned" once main has printed its summary. *)
(* process::exit and a panic inside read_radioss_anim end the process: the *)
(* conversion stands at "aborted" and main takes no further step.          *)

\* One iteration of `for file_name in input_files`, up to the call of
\* read_radioss_anim; after the last file, the report.
MainLoop ==
    LET
        file == batch.files[batch.i + 1]
        Skip(msg) ==
            /\ stderr' = Append(stderr, msg)
            /\ batch' = [batch EXCEPT !.i = @ + 1, !.failed = Append(@, file.name)]
            /\ UNCHANGED <<pc, frame, inLen, inPos, dec, out, cur, retained, abortAt, input>>
        \* File::create truncates the file at the path of the output
        Convert ==
            /\ stderr' = Append(stderr, ProgressLine(file.name))
            /\ batch' = [batch EXCEPT !.i = @ + 1, !.st = "converting"]
            /\ input' = [file_name |-> file.name, openable |-> file.openable]
            /\ frame' = BuildFrame([BaseParams EXCEPT !.magic = file.magic])
            /\ inLen' = IF output_file_name(file.name) = file.name THEN 0 ELSE file.len
            /\ pc' = "open"
            /\ inPos' = 0
            /\ dec' = InitDec
            /\ out' = <<>>
            /\ cur' = InitCur
            /\ retained' = <<>>
            /\ abortAt' = "none"
        Report ==
            /\ batch' = [batch EXCEPT !.st = "returned"]
            /\ stderr' =
                  IF batch.failed # <<>>
                  THEN stderr
                       \o << "", "Conversion summary: " \o ToString(batch.successful)
                                 \o " succeeded, " \o ToString(Len(batch.failed)) \o " failed",
                             "Failed files:" >>
                       \o [k \in 1..Len(batch.failed) |-> "  - " \o batch.failed[k]]
                  ELSE IF batch.successful > 1
                  THEN stderr
                       \o << "", "Conversion complete: " \o ToString(batch.successful)
                                 \o " files converted successfully" >>
                  ELSE stderr
            /\ UNCHANGED <<pc, frame, inLen, inPos, dec, out, cur, retained, abortAt, input>>
    IN
    /\ batch.st = "loop"
    /\ IF batch.i = Len(batch.files) THEN Report
       ELSE IF ~file.exists
       THEN Skip("Error: Input file " \o file.name \o " does not exist")
       ELSE IF ~file.creatable
       THEN Skip("Error: Can't create output file " \o output_file_name(file.name)
                 \o ": " \o "Permission denied")
       ELSE Convert
    /\ UNCHANGED <<binary_format, saved, parsed, rt, report>>

\* read_radioss_anim has returned: successful_files += 1.
MainCounts ==
    /\ batch.st = "converting"
    /\ pc = "done"
    /\ batch' = [batch EXCEPT !.st = "loop", !.successful = @ + 1]
    /\ UNCHANGED <<pc, frame, inLen, inPos, binary_format, dec, out, cur, retained,
                   abortAt, input, stderr, saved, parsed, rt, report>>

(* Command lines of up to MaxFiles files: files that convert, a file whose *)
(* name ends with .vtk, a missing file, a file whose output cannot be      *)
(* created, a file that cannot be opened, a file cut inside its header, a  *)
(* file of another revision.                                               *)

InitBatch ==
    LET
        Whole == BytesRequested(BuildFrame(BaseParams))
        File(name, exists, creatable, openable, magic, len) ==
            [name |-> name, exists |-> exists, creatable |-> creatable,
             openable |-> openable, magic |-> magic, len |-> len]
        CommandFiles ==
            { File("T01A001", TRUE, TRUE, TRUE, FASTMAGI10, Whole),
              File("T01A002.vtk", TRUE, TRUE, TRUE, FASTMAGI10, Whole),
              File("T01A003", FALSE, TRUE, FALSE, FASTMAGI10, 0),
              File("T01A004", TRUE, FALSE, TRUE, FASTMAGI10, Whole),
              File("T01A005", TRUE, TRUE, FALSE, FASTMAGI10, Whole),
              File("T01A006", TRUE, TRUE, TRUE, FASTMAGI10, SizeMagic + 10),
              File("T01A007", TRUE, TRUE, TRUE, FASTMAGI10 + 1, Whole) }
    IN
    /\ \E n \in 1..MaxFiles : \E files \in [1..n -> CommandFiles] :
          batch = [NoBatch EXCEPT !.st = "loop", !.files = files]
    /\ binary_format \in BOOLEAN
    /\ pc = "idle"
    /\ input = [file_name |-> "", openable |-> FALSE]
    /\ frame = BuildFrame(BaseParams)
    /\ inLen = 0
    /\ inPos = 0
    /\ dec = InitDec
    /\ out = <<>>
    /\ cur = InitCur
    /\ retained = <<>>
    /\ abortAt = "none"
    /\ stderr = <<>>
    /\ saved = [written |-> FALSE, binary |-> FALSE, sections |-> <<>>]
    /\ parsed = NoParse
    /\ rt = NoCall
    /\ report = NoReport

NextBatch ==
    \/ MainLoop
    \/ MainCounts
    \/ Next

SpecBatch == InitBatch /\ [][NextBatch]_vars

-----------------------------------------------------------------------------
(* Vocabulary of the properties *)

DecodePcs ==
    {"read_magic", "read_header", "read_2d", "read_mass", "read_numbering",
     "read_hier2d", "read_3d", "read_1d", "read_hierarchy", "read_th", "read_sph"}

PcOrder ==
    << "open", "read_magic", "read_header", "read_2d", "read_mass", "read_numbering",
       "read_hier2d", "read_3d", "read_1d", "read_hierarchy", "read_th", "read_sph",
       "write_header", "write_points", "write_cells", "write_cell_types",
       "write_node_id", "write_point_fields", "write_element_id",
       "write_part_id_header", "write_part_id", "write_erosion",
       "write_family_fields", "finish", "done" >>

PcIndex(p) == CHOOSE i \in 1..Len(PcOrder) : PcOrder[i] = p

\* The step the conversion stands at, or stood at when it aborted.
Where ==
    IF pc = "aborted"
    THEN (IF abortAt = "bad_magic" THEN "read_magic" ELSE abortAt)
    ELSE pc

\* Step p has been carried out to its end.
Passed(p) == PcIndex(Where) > PcIndex(p)

Written(sec) == \E i \in 1..Len(out) : out[i].sec = sec

TheSection(sec) == out[CHOOSE i \in 1..Len(out) : out[i].sec = sec]

\* The cells of the input file, family by family (0-based indices).
FileTotal == frame.nb_elts_1d + frame.nb_facets + frame.nb_elts_3d + frame.nb_elts_sph

FileFacet(icon) == [i \in 1..4 |-> frame.connect_a[icon * 4 + i]]

FileVolume(icon) == [i \in 1..8 |-> frame.connect_3d[icon * 8 + i]]

\* The strictly ascending sequence of the elements of a set of integers.
AscendingSeq(S) ==
    CHOOSE s \in [1..Cardinality(S) -> S] :
        /\ Range(s) = S
        /\ \A i \in 1..Len(s), j \in 1..Len(s) : i < j => s[i] < s[j]

\* The distinct values of s in the order of their first occurrence.
FirstOccurrences(s) ==
    LET firsts == {i \in 1..Len(s) : \A j \in 1..(i - 1) : s[j] # s[i]}
        RECURSIVE Pick(_)
        Pick(I) == IF I = {} THEN <<>> ELSE <<s[SetMin(I)]>> \o Pick(I \ {SetMin(I)})
    IN  Pick(firsts)

-----------------------------------------------------------------------------
(* C1: a stream that ends before a read of the decode sequence can be      *)
(* satisfied makes the conversion abort during the decode: it never        *)
(* reaches a write section nor the completed state, it cannot stop         *)
(* anywhere but in the aborted state, and nothing is written or retained.  *)

ShortStream == inLen < BytesRequested(frame)

C1_ShortReadAborts ==
    ShortStream =>
        /\ pc \in {"open"} \cup DecodePcs \cup {"aborted"}
        /\ pc \in {"open"} \cup DecodePcs => ENABLED Next
        /\ pc = "aborted" => abortAt \in DecodePcs
        /\ out = <<>>
        /\ retained = <<>>

\* A stream cut inside the SPH block has aborted there.
C1_Witness ==
    /\ ShortStream
    /\ pc = "aborted"
    /\ abortAt = "read_sph"
    /\ inPos = inLen

(* C2: when the magic number read differs from FASTMAGI10 the conversion   *)
(* aborts right after the 4 bytes of the magic: no other field is read, no *)
(* local is filled, nothing is written.                                     *)

C2_BadMagicAborts ==
    frame.magic # FASTMAGI10 =>
        /\ pc \in {"open", "read_magic", "aborted"}
        /\ inPos <= SizeMagic
        /\ dec = InitDec
        /\ out = <<>>
        /\ retained = <<>>
        /\ (pc = "aborted" /\ inLen >= SizeMagic) => abortAt = "bad_magic"

\* A file of another revision that holds a whole frame was refused.
C2_Witness ==
    /\ frame.magic # FASTMAGI10
    /\ inLen > SizeMagic + SizeHeader
    /\ pc = "aborted"
    /\ abortAt = "bad_magic"
    /\ inPos = SizeMagic

(* C3: once anything has been written, the whole frame has been read:      *)
(* every byte the decoder requests from this file, through the SPH block,  *)
(* is consumed and the conversion is past its read sections.               *)

C3_DecodeBeforeOutput ==
    out # <<>> =>
        /\ inPos = BytesRequested(frame)
        /\ Where \notin DecodePcs
        /\ dec.nb_elts_sph = frame.nb_elts_sph
        /\ dec.connec_sph = frame.connec_sph

\* The first write has happened for a file with an SPH block.
C3_Witness ==
    /\ pc = "write_points"
    /\ Len(out) = 2
    /\ Flag(frame, 7) # 0
    /\ frame.nb_elts_sph > 0
    /\ inPos = inLen

(* C4 (as claimed): a conversion that has aborted has retained no output.  *)

C4_NoPartialOutput ==
    pc = "aborted" => retained = <<>>

(* C5: in CELLS, a 3-D cell whose 8 indices hold exactly 4 distinct values *)
(* is written as node count 4 and those values in ascending order; any     *)
(* other 3-D cell is written as node count 8 and its 8 indices unchanged.  *)

C5_Classify3D ==
    (Passed("write_cells") /\ FileTotal > 0) =>
        /\ Written("CELLS")
        /\ \A icon \in 0..(frame.nb_elts_3d - 1) :
             LET c == FileVolume(icon)
                 row == TheSection("CELLS").rows[frame.nb_elts_1d + frame.nb_facets
                                                 + icon + 1]
             IN  IF Cardinality(Range(c)) = 4
                 THEN row = <<4>> \o AscendingSeq(Range(c))
                 ELSE row = <<8>> \o c

\* A degenerate hexahedron whose 4 distinct values are not stored in
\* ascending order came out as a sorted tetrahedron.
C5_Witness ==
    /\ Passed("write_cells")
    /\ \E icon \in 0..(frame.nb_elts_3d - 1) :
         /\ FileVolume(icon) = <<7, 5, 3, 1, 1, 3, 5, 7>>
         /\ TheSection("CELLS").rows[frame.nb_elts_1d + frame.nb_facets + icon + 1]
              = <<4, 1, 3, 5, 7>>

(* C6 (as claimed): in CELLS, a 2-D cell whose 4 indices hold exactly 3    *)
(* distinct values is written as a triangle of those 3 values in their     *)
(* original relative order; any other 2-D cell as its 4 indices unchanged. *)

C6_Classify2D ==
    (Passed("write_cells") /\ FileTotal > 0) =>
        /\ Written("CELLS")
        /\ \A icon \in 0..(frame.nb_facets - 1) :
             LET c == FileFacet(icon)
                 row == TheSection("CELLS").rows[frame.nb_elts_1d + icon + 1]
             IN  IF Cardinality(Range(c)) = 3
                 THEN row = <<3>> \o FirstOccurrences(c)
                 ELSE row = <<4>> \o c

(* C7: CELL_TYPES holds one code per cell in the order 1-D, 2-D, 3-D, SPH: *)
(* 3 for a line, 5 for a facet with 3 distinct indices and 9 for any other *)
(* facet, 10 for a volume with 4 distinct indices and 12 for any other     *)
(* volume, 1 for a particle.                                               *)

ExpectedCellType(k) ==
    IF k <= frame.nb_elts_1d THEN 3
    ELSE IF k <= frame.nb_elts_1d + frame.nb_facets
         THEN (IF Cardinality(Range(FileFacet(k - frame.nb_elts_1d - 1))) = 3
               THEN 5 ELSE 9)
    ELSE IF k <= frame.nb_elts_1d + frame.nb_facets + frame.nb_elts_3d
         THEN (IF Cardinality(Range(FileVolume(k - frame.nb_elts_1d
                                               - frame.nb_facets - 1))) = 4
               THEN 10 ELSE 12)
    ELSE 1

C7_CellTypes ==
    (Passed("write_cell_types") /\ FileTotal > 0) =>
        /\ Cardinality({i \in 1..Len(out) : out[i].sec = "CELL_TYPES"}) = 1
        /\ TheSection("CELL_TYPES").hdr = <<FileTotal>>
        /\ TheSection("CELL_TYPES").vals = [k \in 1..FileTotal |-> ExpectedCellType(k)]

\* One cell of every kind: line, quad, triangle, tetrahedron, hexahedron,
\* particle.
C7_Witness ==
    /\ Passed("write_cell_types")
    /\ Written("CELL_TYPES")
    /\ TheSection("CELL_TYPES").vals = <<3, 9, 5, 10, 12, 1>>

-----------------------------------------------------------------------------
(* Part tables of the input file and the PART_ID values, family by family  *)

\* Part count, boundaries, labels and element count of a family in the
\* file, and the position of its first cell in the output order.
FileParts(fam) ==
    CASE fam = "1d"  -> [n |-> frame.nb_parts_1d, b |-> frame.def_part_1d,
                         t |-> frame.p_text_1d, elts |-> frame.nb_elts_1d, first |-> 0]
      [] fam = "2d"  -> [n |-> frame.nb_parts, b |-> frame.def_part_a,
                         t |-> frame.p_text_a, elts |-> frame.nb_facets,
                         first |-> frame.nb_elts_1d]
      [] fam = "3d"  -> [n |-> frame.nb_parts_3d, b |-> frame.def_part_3d,
                         t |-> frame.p_text_3d, elts |-> frame.nb_elts_3d,
                         first |-> frame.nb_elts_1d + frame.nb_facets]
      [] fam = "sph" -> [n |-> frame.nb_parts_sph, b |-> frame.def_part_sph,
                         t |-> frame.p_text_sph, elts |-> frame.nb_elts_sph,
                         first |-> frame.nb_elts_1d + frame.nb_facets + frame.nb_elts_3d]

\* The family holding cell k of the output order (0-based).
FileFamilyOf(k) ==
    CHOOSE fam \in Families :
        /\ FileParts(fam).first <= k
        /\ k < FileParts(fam).first + FileParts(fam).elts

\* The PART_ID written for element i (0-based) of a family.
PartIdOf(fam, i) == TheSection("PART_ID").vals[FileParts(fam).first + i + 1]


(* The integer a label stands for: its text without surrounding blanks is  *)
(* an optional sign and at least one decimal digit, and the number lies    *)
(* within the 32-bit signed range; any other text stands for 0.            *)

DigitOf ==
    [c \in {"0", "1", "2", "3", "4", "5", "6", "7", "8", "9"} |->
        CASE c = "0" -> 0 [] c = "1" -> 1 [] c = "2" -> 2 [] c = "3" -> 3
          [] c = "4" -> 4 [] c = "5" -> 5 [] c = "6" -> 6 [] c = "7" -> 7
          [] c = "8" -> 8 [] c = "9" -> 9]

Unblanked(s) ==
    LET I == {i \in 1..Len(s) : s[i] # " "}
    IN  IF I = {} THEN <<>> ELSE SubSeq(s, SetMin(I), SetMax(I))

Unsigned(t) == IF t # <<>> /\ t[1] \in {"+", "-"} THEN Tail(t) ELSE t

\* The digits of m without leading zeros.
Significant(m) ==
    LET I == {i \in 1..Len(m) : m[i] # "0"}
    IN  IF I = {} THEN <<>> ELSE SubSeq(m, SetMin(I), Len(m))

\* a <= b for two digit strings of the same length.
DigitsLeq(a, b) ==
    \A i \in 1..Len(a) :
        (\A j \in 1..(i - 1) : a[j] = b[j]) => DigitOf[a[i]] <= DigitOf[b[i]]

MaxMagnitude == <<"2", "1", "4", "7", "4", "8", "3", "6", "4", "7">>

MinMagnitude == <<"2", "1", "4", "7", "4", "8", "3", "6", "4", "8">>

RECURSIVE Pow10(_)
Pow10(n) == IF n = 0 THEN 1 ELSE 10 * Pow10(n - 1)

RECURSIVE PlaceSum(_, _)
PlaceSum(g, i) ==
    IF i > Len(g) THEN 0 ELSE DigitOf[g[i]] * Pow10(Len(g) - i) + PlaceSum(g, i + 1)

LabelValue(text) ==
    LET t == Unblanked(text)
        neg == t # <<>> /\ t[1] = "-"
        m == Unsigned(t)
        g == Significant(m)
    IN  IF m = <<>> \/ \E i \in 1..Len(m) : m[i] \notin DOMAIN DigitOf THEN 0
        ELSE IF Len(g) > 10 THEN 0
        ELSE IF Len(g) = 10 /\ ~DigitsLeq(g, IF neg THEN MinMagnitude ELSE MaxMagnitude)
             THEN 0
        ELSE IF neg /\ g = MinMagnitude THEN -I32_MAX - 1
        ELSE IF neg THEN -PlaceSum(g, 1)
        ELSE PlaceSum(g, 1)

(* C8 (as claimed): part_boundaries[k] is the first element of part k, so  *)
(* element i receives the label of the last part k with                    *)
(* part_boundaries[k] <= i.                                                *)

C8_LastPartStartingBefore ==
    Passed("write_part_id") =>
        \A fam \in Families :
            \A i \in 0..(FileParts(fam).elts - 1) :
                LET pt == FileParts(fam)
                    K == {k \in 1..pt.n : pt.b[k] <= i}
                IN  K # {} => PartIdOf(fam, i) = LabelValue(pt.t[SetMax(K)])

(* C8 (amended): part_boundaries[k] is the index one past the last element *)
(* of part k: element i receives the label of the first part k with        *)
(* part_boundaries[k] > i, and 0 when there is no such part; the cursor    *)
(* moves one entry per element at most, so it is held on the first entry   *)
(* that repeats its predecessor and the elements from that boundary on     *)
(* receive the label of that entry.                                        *)

\* The 0-based index of the first entry equal to its predecessor, Len(b)
\* when the entries are strictly increasing.
FirstRepeat(b) ==
    LET R == {k \in 2..Len(b) : b[k] = b[k - 1]}
    IN  IF R = {} THEN Len(b) ELSE SetMin(R) - 1

C8_FirstPartEndingAfter ==
    Passed("write_part_id") =>
        \A fam \in Families :
            \A i \in 0..(FileParts(fam).elts - 1) :
                LET pt == FileParts(fam)
                    ended == Cardinality({k \in 1..pt.n : pt.b[k] <= i})
                    at == IF ended < FirstRepeat(pt.b) THEN ended ELSE FirstRepeat(pt.b)
                IN  PartIdOf(fam, i) =
                        IF at = pt.n THEN 0 ELSE LabelValue(pt.t[at + 1])

\* Three non-empty parts covering the four elements of a family came out
\* as three different IDs.
C8_Witness ==
    /\ Passed("write_part_id")
    /\ \E fam \in Families :
         /\ FileParts(fam).b = <<1, 2, 4>>
         /\ FileParts(fam).elts = 4
         /\ [i \in 1..4 |-> PartIdOf(fam, i - 1)] = <<10, 20, 30, 30>>

(* C9 (as claimed): once element i has been given its ID, the cursor of    *)
(* its family has passed every boundary entry equal to i: it is exhausted  *)
(* or stands on an entry different from i.                                 *)

C9_CursorPassesBoundaries ==
    (pc = "write_part_id" /\ PartIdsWritten > 0) =>
        LET k == PartIdsWritten - 1
            fam == FileFamilyOf(k)
            pt == FileParts(fam)
            i == k - pt.first
        IN  ~(cur[fam] < pt.n /\ pt.b[cur[fam] + 1] = i)

(* C10: the ID written for an element is the value of the label under the  *)
(* cursor of its family, 0 when that label is no 32-bit integer and 0 when *)
(* the cursor is exhausted; the PART_ID loops never abort.                 *)

C10_LabelOrZero ==
    /\ (pc = "aborted" => abortAt \notin {"write_part_id_header", "write_part_id"})
    /\ (pc = "write_part_id" /\ PartIdsWritten > 0) =>
          LET k == PartIdsWritten - 1
              fam == FileFamilyOf(k)
              pt == FileParts(fam)
              id == out[Len(out)].vals[PartIdsWritten]
          IN  id = IF cur[fam] < pt.n THEN LabelValue(pt.t[cur[fam] + 1]) ELSE 0

\* A label that is no integer has just given the ID 0, and a label padded
\* with blanks its number.
C10_Witness ==
    /\ pc = "write_part_id"
    /\ PartIdsWritten > 0
    /\ LET fam == FileFamilyOf(PartIdsWritten - 1)
           pt == FileParts(fam)
       IN  /\ cur[fam] < pt.n
           /\ pt.t[cur[fam] + 1] = <<"a", "b">>
           /\ out[Len(out)].vals[PartIdsWritten] = 0

(* Cell-data fields of the output file *)

\* Position in the output file of the CELL_DATA header, 0 when absent.
CellDataAt(file) ==
    LET I == {i \in 1..Len(file) : file[i].sec = "CELL_DATA"}
    IN  IF I = {} THEN 0 ELSE SetMin(I)

\* The fields of the cell-data block of the output file.
CellFields(file) ==
    IF CellDataAt(file) = 0 THEN <<>> ELSE SubSeq(file, CellDataAt(file) + 1, Len(file))

\* Values per cell of a field: 9 for a tensor, 1 otherwise.
FieldWidth(s) == IF s.sec = "TENSORS" THEN 9 ELSE 1

\* First cell (0-based) and number of cells of the family a named field
\* belongs to, told by the prefix of its name.
OwnCells(s) ==
    CASE s.name[1] = "1DELEM_"  -> [first |-> FileParts("1d").first, n |-> FileParts("1d").elts]
      [] s.name[1] = "2DELEM_"  -> [first |-> FileParts("2d").first, n |-> FileParts("2d").elts]
      [] s.name[1] = "3DELEM_"  -> [first |-> FileParts("3d").first, n |-> FileParts("3d").elts]
      [] s.name[1] = "SPHELEM_" -> [first |-> FileParts("sph").first, n |-> FileParts("sph").elts]

(* C11 (as claimed): in the output file the CELL_DATA header declares the  *)
(* total of the four family counts, every field of the cell-data block     *)
(* holds exactly that many entries (9 values per entry for a tensor), and  *)
(* in a named field the entries of the cells of the other families are 0.  *)

C11_FieldLengths ==
    pc \in {"done", "aborted"} =>
        /\ CellDataAt(retained) # 0 => retained[CellDataAt(retained)].hdr = <<FileTotal>>
        /\ \A i \in 1..Len(CellFields(retained)) :
              LET s == CellFields(retained)[i]
                  w == FieldWidth(s)
              IN  /\ Len(s.vals) = w * FileTotal
                  /\ s.name # <<>> =>
                        \A k \in 1..Len(s.vals) :
                            LET cell == (k - 1) \div w
                            IN  (cell < OwnCells(s).first
                                 \/ cell >= OwnCells(s).first + OwnCells(s).n)
                                => s.vals[k] = 0

(* Tensor fields of the input file and of the output *)

\* Number of named tensors, stored components and components per element
\* of a family in the file.
FileTensors(fam) ==
    CASE fam = "2d"  -> [k |-> frame.nb_tens, v |-> frame.tens_val_a, w |-> 3,
                         prefix |-> "2DELEM_"]
      [] fam = "3d"  -> [k |-> frame.nb_tens_3d, v |-> frame.tens_val_3d, w |-> 6,
                         prefix |-> "3DELEM_"]
      [] fam = "sph" -> [k |-> frame.nb_tens_sph, v |-> frame.tens_val_sph, w |-> 6,
                         prefix |-> "SPHELEM_"]

\* The TENSORS fields of a family in the order written.
TensorsWritten(fam) ==
    SelectSeq(CellFields(out),
              LAMBDA s : s.sec = "TENSORS" /\ s.name[1] = FileTensors(fam).prefix)

\* The 9 values written for element e (0-based) of the family in tensor
\* field t (0-based).
TensorOf(fam, t, e) ==
    LET at == 9 * (FileParts(fam).first + e)
    IN  SubSeq(TensorsWritten(fam)[t + 1].vals, at + 1, at + 9)

\* Stored component c (1-based) of element e of tensor t.
Stored(fam, t, e, c) ==
    FileTensors(fam).v[e * FileTensors(fam).w
                       + t * FileTensors(fam).w * FileParts(fam).elts + c]

(* C12: for every 3-D and SPH element and every named tensor, the stored   *)
(* components [xx,yy,zz,xy,xz,yz], taken at offset e*6 + t*6*count of the  *)
(* family's tensor array, are written as the rows [xx,xy,xz], [xy,yy,yz],  *)
(* [xz,yz,zz].                                                             *)

C12_Tensor6 ==
    Passed("write_family_fields") =>
        \A fam \in {"3d", "sph"} :
            /\ Len(TensorsWritten(fam)) = FileTensors(fam).k
            /\ \A t \in 0..(FileTensors(fam).k - 1), e \in 0..(FileParts(fam).elts - 1) :
                  LET xx == Stored(fam, t, e, 1)
                      yy == Stored(fam, t, e, 2)
                      zz == Stored(fam, t, e, 3)
                      xy == Stored(fam, t, e, 4)
                      xz == Stored(fam, t, e, 5)
                      yz == Stored(fam, t, e, 6)
                  IN  TensorOf(fam, t, e) = <<xx, xy, xz, xy, yy, yz, xz, yz, zz>>

\* The stored components [1,2,3,4,5,6] came out as [1,4,5], [4,2,6],
\* [5,6,3], and the second element of a second tensor over two elements was
\* taken from offset 18.
C12_Witness ==
    /\ pc = "done"
    /\ frame.nb_elts_3d = 2
    /\ frame.nb_tens_3d = 2
    /\ SubSeq(frame.tens_val_3d, 1, 6) = <<1, 2, 3, 4, 5, 6>>
    /\ TensorOf("3d", 0, 0) = <<1, 4, 5, 4, 2, 6, 5, 6, 3>>
    /\ TensorOf("3d", 1, 1) = <<19, 22, 23, 22, 20, 24, 23, 24, 21>>

(* C13: for every 2-D element and every named 2-D tensor, the stored       *)
(* components [xx,yy,xy], taken at offset e*3 + t*3*facet_count of the 2-D *)
(* tensor array, are written as the rows [xx,xy,0], [xy,yy,0], [0,0,0].    *)

C13_Tensor3 ==
    Passed("write_family_fields") =>
        /\ Len(TensorsWritten("2d")) = FileTensors("2d").k
        /\ \A t \in 0..(FileTensors("2d").k - 1), e \in 0..(FileParts("2d").elts - 1) :
              LET xx == Stored("2d", t, e, 1)
                  yy == Stored("2d", t, e, 2)
                  xy == Stored("2d", t, e, 3)
              IN  TensorOf("2d", t, e) = <<xx, xy, 0, xy, yy, 0, 0, 0, 0>>

\* The second facet of a second tensor over two facets was taken from
\* offset 9 of the tensor array.
C13_Witness ==
    /\ pc = "done"
    /\ frame.nb_facets = 2
    /\ frame.nb_tens = 2
    /\ SubSeq(frame.tens_val_a, 10, 12) = <<60, 61, 62>>
    /\ TensorOf("2d", 1, 1) = <<60, 62, 0, 62, 61, 0, 0, 0, 0>>

(* C14: the ASCII run and the binary run of the serializer on the same     *)
(* frame emit the same sequence of sections and field headers, the same    *)
(* declared counts and the same logical values, zero padding and part IDs  *)
(* included; only the encoding of the primitive values differs.  Once the  *)
(* same input has been converted in both formats, the two output files     *)
(* agree section by section on keyword, name, counts, values and cells.    *)

\* A section without the encoding of its values.
Logical(s) ==
    [sec |-> s.sec, name |-> s.name, hdr |-> s.hdr, vals |-> s.vals, rows |-> s.rows]

LogicalFile(sections) == [i \in 1..Len(sections) |-> Logical(sections[i])]

\* The primitive encodings a section uses for its values.
Encodings(s) == {s.chunks[i].t : i \in 1..Len(s.chunks)} \ {"line"}

BothConverted == saved.written /\ pc \in {"done", "aborted"}

C14_SameLogicalOutput ==
    BothConverted =>
        /\ saved.binary # binary_format
        /\ LogicalFile(retained) = LogicalFile(saved.sections)
        /\ \A i \in 1..Len(retained) :
              /\ Encodings(retained[i]) \subseteq
                    (IF binary_format THEN {"i32", "f32", "f64"} ELSE {"nums"})
              /\ Encodings(saved.sections[i]) \subseteq
                    (IF saved.binary THEN {"i32", "f32", "f64"} ELSE {"nums"})

\* Both conversions of a frame with a tetrahedron, cells of every family,
\* named fields and part tables ran to their end.
C14_Witness ==
    /\ BothConverted
    /\ pc = "done"
    /\ frame.nb_nodes > 0
    /\ frame.nb_elts_1d > 0 /\ frame.nb_facets > 0 /\ frame.nb_elts_sph > 0
    /\ frame.nb_elts_3d > 0 /\ Cardinality(Range(FileVolume(0))) = 4
    /\ frame.nb_tens > 0 /\ frame.nb_tens_3d > 0
    /\ Len(retained) > 10
    /\ \E i \in 1..Len(retained) :
          /\ retained[i].sec = "TENSORS"
          /\ retained[i].chunks # saved.sections[i].chunks
    /\ \E i \in 1..Len(retained) :
          retained[i].sec = "PART_ID" /\ retained[i].vals # Zeros(FileTotal)

-----------------------------------------------------------------------------
\* C15: when both conversions of a frame ran to completion, read_vtk_file
\* returns the same data for the ASCII output and the binary output: the same
\* points, cells, cell types, point scalars, point vectors and cell scalars,
\* names and values.
C15_SameParse == parsed # NoParse /\ pc = "done" => parsed[1] = parsed[2]

-----------------------------------------------------------------------------
(* C16 (as claimed): the file of a completed conversion holds the file     *)
(* header, the field data, POINTS, CELLS, CELL_TYPES, POINT_DATA and       *)
(* CELL_DATA in this order, each exactly once and none omitted, whatever   *)
(* the number of nodes and of cells of the frame.                          *)

CanonicalSections ==
    << "HEADER", "FIELD", "POINTS", "CELLS", "CELL_TYPES", "POINT_DATA", "CELL_DATA" >>

\* The blocks of a file among the seven above, in file order.
BlocksOf(file) ==
    LET IsBlock(rec) == rec.sec \in Range(CanonicalSections)
        kept == SelectSeq(file, IsBlock)
    IN  [i \in 1..Len(kept) |-> kept[i].sec]

C16_CanonicalSequence ==
    pc = "done" => BlocksOf(retained) = CanonicalSections

-----------------------------------------------------------------------------
(* Order of the cell-data block *)

\* What tells a field of the cell-data block: the family prefix of a named
\* field, the keyword of another one.
FieldLabel(s) == IF s.name = <<>> THEN s.sec ELSE s.name[1]

\* The labels of the cell-data block of the file: the three fixed fields,
\* then one label per named field of the file, family by family.
FileFieldLabels ==
       << "ELEMENT_ID", "PART_ID", "EROSION_STATUS" >>
    \o [k \in 1..(frame.nb_efunc_1d + 9 * frame.nb_tors_1d) |-> "1DELEM_"]
    \o [k \in 1..(frame.nb_efunc + frame.nb_tens) |-> "2DELEM_"]
    \o [k \in 1..(frame.nb_efunc_3d + frame.nb_tens_3d) |-> "3DELEM_"]
    \o [k \in 1..(frame.nb_efunc_sph + frame.nb_tens_sph) |-> "SPHELEM_"]

IsPrefix(s, t) == Len(s) <= Len(t) /\ s = SubSeq(t, 1, Len(s))

\* The nodes of element e (0-based) of a family in the file.
FileNodes(fam, e) ==
    CASE fam = "1d"  -> {frame.connect_1d[2 * e + 1], frame.connect_1d[2 * e + 2]}
      [] fam = "2d"  -> Range(FileFacet(e))
      [] fam = "3d"  -> Range(FileVolume(e))
      [] fam = "sph" -> {frame.connec_sph[e + 1]}

\* The external numbers and the named scalars of a family in the file: k
\* scalars of elts values each, scalar after scalar.
FileScalars(fam) ==
    CASE fam = "1d"  -> [ids |-> frame.el_num_1d, k |-> frame.nb_efunc_1d,
                         v |-> frame.efunc_1d, prefix |-> "1DELEM_"]
      [] fam = "2d"  -> [ids |-> frame.el_num_a, k |-> frame.nb_efunc,
                         v |-> frame.efunc_a, prefix |-> "2DELEM_"]
      [] fam = "3d"  -> [ids |-> frame.el_num_3d, k |-> frame.nb_efunc_3d,
                         v |-> frame.efunc_3d, prefix |-> "3DELEM_"]
      [] fam = "sph" -> [ids |-> frame.nod_num_sph, k |-> frame.nb_efunc_sph,
                         v |-> frame.efunc_sph, prefix |-> "SPHELEM_"]

\* The SCALARS fields of a family in the order written.
ScalarsWritten(fam) ==
    SelectSeq(CellFields(out),
              LAMBDA s : s.sec = "SCALARS" /\ s.name[1] = FileScalars(fam).prefix)

(* C17: the fields of the cell-data block are written in the order         *)
(* ELEMENT_ID, PART_ID, EROSION_STATUS, then the named fields of the 1-D,  *)
(* the 2-D, the 3-D and the SPH family; and in the CELLS list, in          *)
(* ELEMENT_ID and in every named scalar field the entries of the 1-D cells *)
(* come first, then those of the 2-D, the 3-D and the SPH cells, each      *)
(* entry being the one of that cell in the file.                           *)

-----------------------------------------------------------------------------
(* Optional sections of the stream *)

\* The optional read sections in the order of the stream: the step that
\* reads the section, the flag that gates it (index as in the source), the
\* step that follows, the least number of bytes the section holds when it
\* is in the file (its arrays, or the counts its block starts with), and
\* whether the section holds nothing else.
OptionalSections ==
    << [at |-> "read_mass", flag |-> 0, next |-> "read_numbering",
        bytes |-> 4 * frame.nb_facets + 4 * frame.nb_nodes, exact |-> TRUE],
       [at |-> "read_numbering", flag |-> 1, next |-> "read_hier2d",
        bytes |-> 4 * frame.nb_nodes + 4 * frame.nb_facets, exact |-> TRUE],
       [at |-> "read_hier2d", flag |-> 4, next |-> "read_3d",
        bytes |-> 3 * 4 * frame.nb_parts, exact |-> TRUE],
       [at |-> "read_3d", flag |-> 2, next |-> "read_1d", bytes |-> 4 * 4, exact |-> FALSE],
       [at |-> "read_1d", flag |-> 3, next |-> "read_hierarchy", bytes |-> 5 * 4,
        exact |-> FALSE],
       [at |-> "read_hierarchy", flag |-> 4, next |-> "read_th", bytes |-> 3 * 4,
        exact |-> FALSE],
       [at |-> "read_th", flag |-> 5, next |-> "read_sph", bytes |-> 4 * 4, exact |-> FALSE],
       [at |-> "read_sph", flag |-> 7, next |-> "write_header", bytes |-> 4 * 4,
        exact |-> FALSE] >>

\* The step taken from an optional section s leads to the next section of
\* the stream or aborts; it consumes nothing and stores nothing when the
\* section is gated off, and the whole section when it is gated on and the
\* stream holds it.
GatedStep(s, on) ==
    pc = s.at =>
        /\ pc' \in {s.next, "aborted"}
        /\ inPos' >= inPos
        /\ ~on => inPos' = inPos /\ pc' = s.next /\ dec' = dec
        /\ (on /\ pc' = s.next) =>
              IF s.exact THEN inPos' - inPos = s.bytes ELSE inPos' - inPos >= s.bytes

(* C18 (as claimed): every optional section is consumed if and only if its *)
(* flag is set, i.e. holds a value other than 0.                           *)

C18_ConsumedIffFlagSet ==
    [][\A k \in 1..Len(OptionalSections) :
          GatedStep(OptionalSections[k], frame.flag_a[OptionalSections[k].flag + 1] # 0)]_vars

(* C18 (amended): after the 2-D block the decoder goes through the         *)
(* optional sections in the order mass arrays, external numbering, 2-D     *)
(* hierarchy indices, 3-D block, 1-D block, subset tree with material and  *)
(* property tables, time-history lists, SPH block, each once; the mass     *)
(* arrays are consumed if and only if flag 0 holds exactly 1, every other  *)
(* section if and only if its flag holds a value other than 0; a section   *)
(* that is gated off consumes no byte and changes no local.                *)

GatedOn(s) ==
    IF s.flag = 0 THEN frame.flag_a[1] = 1 ELSE frame.flag_a[s.flag + 1] # 0

C18_ConsumedIffGated ==
    [][\A k \in 1..Len(OptionalSections) :
          GatedStep(OptionalSections[k], GatedOn(OptionalSections[k]))]_vars

\* A file whose flags are 2 for the mass arrays and for the numbering, 0
\* for the 3-D block and the time-history lists, 1 for the others, was
\* decoded to its end: every byte of it was consumed, the numbers of the
\* node and of the facet were stored, no 3-D count was.
C18_Witness ==
    /\ pc = "write_header"
    /\ frame.flag_a = <<2, 2, 0, 1, 1, 0, 0, 1, 0, 0>>
    /\ inPos = inLen
    /\ inPos = SizeMagic + SizeHeader + Size2D(frame) + 8 + 12 + Size1D(frame)
               + SizeHierarchy(frame) + SizeSPH(frame)
    /\ dec.nod_num_a = <<1001>>
    /\ dec.nb_elts_3d = 0
    /\ dec.nb_elts_1d = 1

-----------------------------------------------------------------------------
(* Fixed-width texts *)

\* The bytes the call of read_text was given.
TextRead == SubSeq(rt.bytes, rt.pos + 1, rt.pos + rt.count)

\* A sequence of the bytes 0, 65, 195, 169 and 255 is UTF-8 when it holds
\* no byte 255 and its bytes 195 and 169 come in pairs 195 169 only.
IsUtf8Text(b) ==
    \A i \in 1..Len(b) :
        /\ b[i] # 255
        /\ b[i] = 195 => i < Len(b) /\ b[i + 1] = 169
        /\ b[i] = 169 => i > 1 /\ b[i - 1] = 195

(* C19: a call read_text(N) on a stream that holds N more bytes returns    *)
(* with the stream N bytes further, whatever the bytes; when the N bytes   *)
(* are valid UTF-8 the text returned is these bytes up to the last one     *)
(* that is not NUL; when they are not, the call returns the empty text     *)
(* all the same.                                                           *)

C19_ReadText ==
    /\ rt.st = "panic" => rt.pos + rt.count > Len(rt.bytes)
    /\ rt.st = "returned" =>
          /\ rt.at = rt.pos + rt.count
          /\ IF IsUtf8Text(TextRead)
             THEN \E k \in 0..rt.count :
                     /\ rt.text = SubSeq(TextRead, 1, k)
                     /\ \A j \in (k + 1)..rt.count : TextRead[j] = 0
                     /\ k > 0 => TextRead[k] # 0
             ELSE rt.text = <<>>

\* Four bytes whose second one opens a character that the third one does
\* not continue were read: the empty text came back, the stream is four
\* bytes further.
C19_Witness ==
    /\ rt.st = "returned"
    /\ rt.bytes = <<65, 195, 0, 0>>
    /\ rt.pos = 0
    /\ rt.count = 4
    /\ rt.at = 4
    /\ rt.text = <<>>

-----------------------------------------------------------------------------
(* C20 (as claimed): the message that reports a fatal error of a           *)
(* conversion (the input file cannot be opened, the stream ends short,     *)
(* the magic number is not the supported one) holds the name of the input  *)
(* file.                                                                   *)

\* The text holds s.
Holds(text, s) ==
    \E i \in 1..(Len(text) - Len(s) + 1) : SubSeq(text, i, i + Len(s) - 1) = s

\* The message of the fatal error: the last line printed before the
\* conversion ended.
ErrorReport == stderr[Len(stderr)]

C20_ErrorNamesFile ==
    pc = "aborted" => Holds(ErrorReport, input.file_name)

-----------------------------------------------------------------------------
(* Names of the fields *)

\* name is text with every space replaced by an underscore.
Sanitizes(text, name) ==
    /\ Len(name) = Len(text)
    /\ \A i \in 1..Len(text) : name[i] = (IF text[i] = " " THEN "_" ELSE text[i])

\* The name tables of the elemental fields of a family in the file, and the
\* prefix of the family.
FileNames(fam) ==
    CASE fam = "1d"  -> [prefix |-> "1DELEM_", names |-> frame.f_text_1d \o frame.t_text_1d]
      [] fam = "2d"  -> [prefix |-> "2DELEM_",
                         names |-> SubSeq(frame.f_text_a, frame.nb_func + 1,
                                          Len(frame.f_text_a)) \o frame.t_text_a]
      [] fam = "3d"  -> [prefix |-> "3DELEM_", names |-> frame.f_text_3d \o frame.t_text_3d]
      [] fam = "sph" -> [prefix |-> "SPHELEM_",
                         names |-> frame.scal_text_sph \o frame.tens_text_sph]

\* The fields written between POINT_DATA and CELL_DATA, NODE_ID left out.
PointFields ==
    SelectSeq(out, LAMBDA s : s.sec \in {"SCALARS", "VECTORS"}
                              /\ s.name[1] \notin {"1DELEM_", "2DELEM_", "3DELEM_", "SPHELEM_"})

(* C22: no name written holds a space; the name of a nodal field is the    *)
(* name of the file with every space replaced by an underscore; the name   *)
(* of an elemental field is the prefix of its own family (1DELEM_,         *)
(* 2DELEM_, 3DELEM_, SPHELEM_) followed by a name of that family in the    *)
(* file, sanitized the same way (and by a component suffix for a torsor);  *)
(* the header line of a field holds that name; the four built-in fields    *)
(* are headed NODE_ID, ELEMENT_ID, PART_ID and EROSION_STATUS.             *)

C22_FieldNames ==
    /\ \A i \in 1..Len(out) :
          /\ \A k \in 1..Len(out[i].name) : out[i].name[k] # " "
          /\ out[i].sec \in {"SCALARS", "VECTORS", "TENSORS"} =>
                out[i].chunks[1].s
                    = out[i].sec \o " " \o Join(out[i].name)
                      \o (IF out[i].sec = "SCALARS" THEN " float 1" ELSE " float")
          /\ out[i].sec \in {"NODE_ID", "ELEMENT_ID", "PART_ID", "EROSION_STATUS"} =>
                out[i].chunks[1].s = "SCALARS " \o out[i].sec \o " int 1"
    /\ \A i \in 1..Len(CellFields(out)) :
          LET name == CellFields(out)[i].name
          IN  name # <<>> =>
                \E fam \in Families :
                    /\ name[1] = FileNames(fam).prefix
                    /\ \E k \in 1..Len(FileNames(fam).names) :
                          \/ Sanitizes(FileNames(fam).names[k], Tail(name))
                          \/ /\ fam = "1d"
                             /\ name[Len(name)] \in Range(tors_suffixes)
                             /\ Sanitizes(FileNames(fam).names[k],
                                          SubSeq(name, 2, Len(name) - 1))
    /\ Passed("write_point_fields") =>
          /\ Len(PointFields) = frame.nb_func + frame.nb_vect
          /\ \A k \in 1..frame.nb_func : Sanitizes(frame.f_text_a[k], PointFields[k].name)
          /\ \A k \in 1..frame.nb_vect :
                Sanitizes(frame.v_text_a[k], PointFields[frame.nb_func + k].name)

\* The names "f 4" of the second facet scalar and "x 1" of the first SPH
\* tensor of the file were written as 2DELEM_f_4 and SPHELEM_x_1.
C22_Witness ==
    /\ pc = "done"
    /\ Len(frame.f_text_a) = 4
    /\ frame.f_text_a[4] = <<"f", " ", "4">>
    /\ \E i \in 1..Len(out) : out[i].chunks[1].s = "SCALARS 2DELEM_f_4 float 1"
    /\ \E i \in 1..Len(out) : out[i].chunks[1].s = "TENSORS SPHELEM_x_1 float"

-----------------------------------------------------------------------------
(* C23: the 2-D block holds one table of nb_func + nb_efunc names, then    *)
(* the nodal values, then the facet values.  Nodal scalar k is written in  *)
(* POINT_DATA under name k of the table with the value func[k*nb_nodes+n]  *)
(* for node n; facet scalar k is written in CELL_DATA under name           *)
(* nb_func + k with the value efunc[k*nb_facets + e] for facet e.          *)

C23_SharedNameTable ==
    /\ Passed("read_2d") =>
          /\ dec.f_text_a = frame.f_text_a
          /\ Len(dec.f_text_a) = frame.nb_func + frame.nb_efunc
          /\ Len(dec.func_a) = frame.nb_func * frame.nb_nodes
          /\ Len(dec.efunc_a) = frame.nb_efunc * frame.nb_facets
    /\ Passed("write_point_fields") =>
          \A k \in 0..(frame.nb_func - 1) :
              /\ PointFields[k + 1].sec = "SCALARS"
              /\ Sanitizes(frame.f_text_a[k + 1], PointFields[k + 1].name)
              /\ PointFields[k + 1].vals
                    = [n \in 1..frame.nb_nodes |-> frame.func_a[k * frame.nb_nodes + n]]
    /\ Passed("write_family_fields") =>
          \A k \in 0..(frame.nb_efunc - 1) :
              LET s == ScalarsWritten("2d")[k + 1]
              IN  /\ Sanitizes(frame.f_text_a[frame.nb_func + k + 1], Tail(s.name))
                  /\ \A e \in 0..(frame.nb_facets - 1) :
                        s.vals[frame.nb_elts_1d + e + 1]
                            = frame.efunc_a[k * frame.nb_facets + e + 1]

\* Of the four names f 1 .. f 4 of a file with one node and two facets, the
\* second heads the nodal value 22 and the third the facet values 31, 32.
C23_Witness ==
    /\ pc = "done"
    /\ frame.nb_func = 2 /\ frame.nb_nodes = 1 /\ frame.nb_facets = 2
    /\ frame.nb_elts_1d = 0
    /\ PointFields[2].name = <<"f", "_", "2">>
    /\ PointFields[2].vals = <<22>>
    /\ ScalarsWritten("2d")[1].name = <<"2DELEM_", "f", "_", "3">>
    /\ SubSeq(ScalarsWritten("2d")[1].vals, 1, 2) = <<31, 32>>

-----------------------------------------------------------------------------
(* C24: every named torsor t of the 1-D family is written as 9 scalar      *)
(* fields of the cell-data block, suffixed F1, F2, F3, M1, M2, M3, M4, M5, *)
(* M6 in this order, after the scalars of the family; component j of 1-D   *)
(* element e is the stored value at 9*t*nb_elts_1d + 9*e + j, an index     *)
(* inside the torsor array of nb_elts_1d * 9 * nb_tors values; the entries *)
(* of the 2-D, 3-D and SPH cells are 0.                                    *)

C24_Torsors ==
    /\ Passed("read_1d") /\ frame.flag_a[4] # 0 =>
          /\ dec.tors_val_1d = frame.tors_val_1d
          /\ Len(dec.tors_val_1d) = frame.nb_elts_1d * 9 * frame.nb_tors_1d
    /\ Passed("write_family_fields") =>
          /\ Len(ScalarsWritten("1d")) = frame.nb_efunc_1d + 9 * frame.nb_tors_1d
          /\ \A t \in 0..(frame.nb_tors_1d - 1), j \in 0..8 :
                LET s == ScalarsWritten("1d")[frame.nb_efunc_1d + 9 * t + j + 1]
                    suffix == <<"F1", "F2", "F3", "M1", "M2", "M3", "M4", "M5", "M6">>[j + 1]
                IN  /\ s.name[Len(s.name)] = suffix
                    /\ Sanitizes(frame.t_text_1d[t + 1], SubSeq(s.name, 2, Len(s.name) - 1))
                    /\ Len(s.vals) = FileTotal
                    /\ \A e \in 0..(frame.nb_elts_1d - 1) :
                          /\ 9 * t * frame.nb_elts_1d + 9 * e + j < Len(frame.tors_val_1d)
                          /\ s.vals[e + 1]
                                = frame.tors_val_1d[9 * t * frame.nb_elts_1d + 9 * e + j + 1]
                    /\ \A c \in (frame.nb_elts_1d + 1)..FileTotal : s.vals[c] = 0

\* With two torsors over two 1-D elements and one cell in each of the other
\* families, the field M1 of the second torsor holds the stored values of
\* indices 21 and 30, then three zeros.
C24_Witness ==
    /\ pc = "done"
    /\ frame.nb_tors_1d = 2 /\ frame.nb_elts_1d = 2
    /\ frame.nb_facets = 1 /\ frame.nb_elts_3d = 1 /\ frame.nb_elts_sph = 1
    /\ ScalarsWritten("1d")[2 + 9 + 4].name = <<"1DELEM_", "w", "_", "2", "M1">>
    /\ ScalarsWritten("1d")[2 + 9 + 4].vals = <<90 + 22, 90 + 31, 0, 0, 0>>

-----------------------------------------------------------------------------
(* C25 (as claimed): a conversion whose decode met no short read runs to   *)
(* its end whatever the flags: it never stops inside a write section on    *)
(* an index outside a decoded array.                                       *)

C25_WritesRunToCompletion ==
    pc = "aborted" => abortAt \in DecodePcs \cup {"open", "bad_magic"}

-----------------------------------------------------------------------------
(* C26 (as claimed): whatever the value of the external-numbering flag,    *)
(* once the decode is over either the external numbers of the nodes and of *)
(* every family were all decoded (one per node, one per element of the     *)
(* family) or none was.                                                    *)

C26_UniformNumbering ==
    Passed("read_sph") =>
        LET read == << Len(dec.nod_num_a), Len(dec.el_num_a), Len(dec.el_num_3d),
                       Len(dec.el_num_1d), Len(dec.nod_num_sph) >>
        IN  \/ read = << dec.nb_nodes, dec.nb_facets, dec.nb_elts_3d, dec.nb_elts_1d,
                         dec.nb_elts_sph >>
            \/ read = << 0, 0, 0, 0, 0 >>

-----------------------------------------------------------------------------
(* C27: the CELLS header declares the number of cells written and the      *)
(* number of integers written for them: 3 per 1-D element, 5 per 2-D cell, *)
(* 5 per tetrahedron, 9 per hexahedron, 2 per particle; every cell starts  *)
(* with the number of node indices that follow it.                         *)

C27_CellsHeader ==
    Written("CELLS") =>
        LET s == TheSection("CELLS")
            tets == Cardinality({icon \in 0..(frame.nb_elts_3d - 1) :
                                    Cardinality(Range(FileVolume(icon))) = 4})
        IN  /\ s.hdr[1] = Len(s.rows)
            /\ s.hdr[1] = FileTotal
            /\ s.hdr[2] = Len(s.vals)
            /\ s.vals = Flatten(s.rows)
            /\ s.hdr[2] = 3 * frame.nb_elts_1d + 5 * frame.nb_facets + 5 * tets
                          + 9 * (frame.nb_elts_3d - tets) + 2 * frame.nb_elts_sph
            /\ \A k \in 1..Len(s.rows) : s.rows[k][1] = Len(s.rows[k]) - 1

\* One line element, one facet, a tetrahedron and a hexahedron, one
\* particle: 5 cells declared with 3 + 5 + 5 + 9 + 2 = 24 integers.
C27_Witness ==
    /\ Written("CELLS")
    /\ frame.nb_elts_1d = 1 /\ frame.nb_facets = 1 /\ frame.nb_elts_sph = 1
    /\ frame.nb_elts_3d = 2
    /\ FileVolume(0) = <<1, 2, 3, 4, 4, 4, 4, 4>>
    /\ FileVolume(1) = <<1, 2, 3, 4, 5, 6, 7, 8>>
    /\ TheSection("CELLS").hdr = <<5, 24>>
    /\ Len(TheSection("CELLS").vals) = 24

-----------------------------------------------------------------------------
(* The batch of main *)

\* The process has ended: main has returned or exited after its report, or
\* read_radioss_anim has exited or panicked.
ProcessEnded ==
    \/ batch.st = "returned"
    \/ batch.st = "converting" /\ pc = "aborted"

\* The files of the command line main has not taken.
FilesLeft == Len(batch.files) - batch.i

(* C28 (as claimed): when the process of a batch has ended, every file of  *)
(* the command line was taken by the loop and either converted or          *)
(* recorded in the failed list of the summary; a failure on one file       *)
(* leaves no file after it untaken.                                        *)

C28_EveryFileProcessed ==
    (batch.st # "none" /\ ProcessEnded) =>
        /\ FilesLeft = 0
        /\ batch.successful + Len(batch.failed) = Len(batch.files)
        /\ batch.st = "returned"

(* C29 (as claimed): while main converts a file, the output it created has *)
(* another path than the input, and the input still has the length it had  *)
(* on the command line when read_radioss_anim reads it.                    *)

C29_InputUntouched ==
    batch.st = "converting" =>
        /\ output_file_name(input.file_name) # input.file_name
        /\ inLen = batch.files[batch.i].len

(* C30 (as claimed): whatever file compare_vtk reads, read_float_values    *)
(* and read_int_values return: read_vtk_file ends with data or with an     *)
(* error, never inside a reader that reads the end of the file for ever.   *)

C30_ReadersTerminate ==
    parsed # NoParse => \A k \in 1..Len(parsed) : parsed[k].st # "hang"

-----------------------------------------------------------------------------
(* The report of compare_vtk *)

\* The lists of named fields read_vtk_file fills.
FieldLists == {"point_scalars", "point_vectors", "cell_scalars", "cell_scalars_float"}

\* The names of the fields of one list that both files hold.
InBoth(list) ==
    { parsed[1].data[list][k][1] : k \in 1..Len(parsed[1].data[list]) }
    \cap { parsed[2].data[list][k][1] : k \in 1..Len(parsed[2].data[list]) }

(* C21 (as claimed): when compare_vtk has compared two files of equal      *)
(* point and cell counts, its report holds a maximum absolute difference   *)
(* for every named field both files hold, the integer cell scalars         *)
(* ELEMENT_ID, PART_ID and EROSION_STATUS included.                        *)

C21_EveryFieldReported ==
    report.st = "ok" =>
        \A list \in FieldLists : \A name \in InBoth(list) :
            \E l \in 1..Len(report.stdout) :
                /\ report.stdout[l].kind = "diff"
                /\ report.stdout[l].name = name

=============================================================================
